---------------------------- MODULE Spec2Model ----------------------------
(***************************************************************************)
(* Cellular automaton engine of the `ca` crate: coordinate wrap, the       *)
(* neighbourhood iterators of nb.rs, the iterator and the rules of lib.rs, *)
(* the double-buffered tick of CA1 and CA2, the command line parser of     *)
(* config.rs and the view construction and event loop of main.rs.          *)
(*                                                                         *)
(* The specifications share the variables:                                 *)
(*   SpecWrap        wrap_idx applied to drawn (idx, limit) pairs          *)
(*   SpecNb          the nb.rs and lib.rs iterators collected on grids     *)
(*   SpecElementary  an elementary 1-D automaton, ticked                   *)
(*   SpecLife        a life-like 2-D automaton, ticked                     *)
(*   SpecCyclic      a cyclic 2-D automaton on small grids, ticked         *)
(*   SpecCyclicAll   the same, with the wide-range configurations          *)
(*   Spec            every automaton above                                 *)
(*   SpecCyclicAny   cyclic automata, those of 0 and 1 states included     *)
(*   SpecBounded     elementary, life and cyclic automata of any STATES    *)
(*   SpecBlinker     Conway's life seeded with a three-cell line           *)
(*   SpecCA1         get_ca_view building the general 1-D automaton        *)
(*   SpecConfig      Config::from_matches on drawn command lines           *)
(*   SpecView        a 2-D automaton, parsed, built, drawn and ticked      *)
(*   SpecInit        the initialization the parser hands to get_ca_view    *)
(*   SpecHistory     a 1-D view and its rows, ticked                       *)
(*   SpecPeriod      cyclic automata with threshold 0, ticked              *)
(* Vectors are functions over 0..len-1, as the code indexes them.          *)
(***************************************************************************)
EXTENDS Integers, Sequences, FiniteSets

VARIABLES
    wrap_in,          \* wrap_idx arguments: [idx, limit]
    wrap_out,         \* [done, nb, lib]: results of nb.rs and lib.rs wrap_idx
    nb_in,            \* iterator arguments: [cells, w, h, row, col, range]
    nb_out,           \* [moore_done, moore, vn_done, vonneumann, lib_done, lib_moore]: collected sequences
    ca_type,          \* config::CAType the automaton was built from
    automaton,        \* the CA1 / CA2 struct: [w, (h,) cells, future, rule]
    cells0,           \* the grid the automaton was constructed with
    gen,              \* number of completed tick calls
    failed,           \* the process panicked (in a tick, at start-up or drawing)
    overflow_checks,  \* build profile: TRUE panics on integer overflow, FALSE wraps
    cfg_in,           \* command line: [free, init], free arguments and --init
    cfg_out,          \* [done, res]: what Config::from_matches returned
    view              \* [state, err, drawn]: get_ca_view's result, frames drawn

wrapVars == <<wrap_in, wrap_out>>
nbVars == <<nb_in, nb_out>>
caVars == <<ca_type, automaton, cells0, gen, failed, overflow_checks>>
cfgVars == <<cfg_in, cfg_out>>
vars == <<wrap_in, wrap_out, nb_in, nb_out,
          ca_type, automaton, cells0, gen, failed, overflow_checks,
          cfg_in, cfg_out, view>>

-----------------------------------------------------------------------------
(* Bounds of the model *)

\* wrap_idx is tried on idx in -MaxIdx..MaxIdx
MaxIdx == 13
\* wrap_idx is tried on limit in 1..MaxLimit
MaxLimit == 10
\* iterator grids have 1..NbMaxH rows
NbMaxH == 3
\* iterator grids have 1..NbMaxW columns
NbMaxW == 3
\* iterator ranges 0..NbMaxRange
NbMaxRange == 2
\* 1-D automata have 1..MaxW1 cells
MaxW1 == 2
\* life grids have at most MaxAreaLife cells
MaxAreaLife == 6
\* cyclic grids have at most MaxArea cells
MaxArea == 4
\* cyclic neighbourhood ranges 0..MaxRange
MaxRange == 1
\* tick is called at most MaxTicks times
MaxTicks == 2
\* blinker grids have 5..MaxBlinkerSide rows and columns
MaxBlinkerSide == 6
\* a blinker is ticked at most MaxBlinkerTicks times
MaxBlinkerTicks == 4
\* automata shown by a 1-D view have 1..MaxViewW cells
MaxViewW == 3
\* a 1-D view has 1..MaxViewHeight rows
MaxViewHeight == 3
\* a 1-D view is ticked at most MaxViewTicks times
MaxViewTicks == 5
\* cyclic automata without a threshold have 1..MaxPeriod states and are
\* ticked at most MaxPeriod times
MaxPeriod == 3

\* Cell values of the drawn grids: 2 is a value that is neither 0 nor 1.
CellValues == {0, 1, 2}
\* <<survive, birth>> of the drawn life rules: Conway's, HighLife, Seeds and
\* a rule without births
LifeRules ==
    {<<{2, 3}, {3}>>, <<{2, 3}, {3, 6}>>, <<{}, {2}>>, <<{2, 3}, {}>>}
\* state counts and thresholds of the drawn cyclic rules
CyclicStates == {2, 8}
Thresholds == {0, 2, 255}
\* The wide-range cyclic configurations: 2 x 5 grids holding four 1s and
\* six 0s, one of them in the first cell, with a neighbourhood of 224 cells
\* (range 7) or 624 (range 12). At range 12 a 0 has between 240 and 260
\* neighbours of value 1.
WideDims == <<2, 5>>
WideOnes == {4}
WideRanges == {7, 12}

-----------------------------------------------------------------------------
(* Arithmetic of the target *)

Abs(x) == IF x < 0 THEN -x ELSE x

\* Rust's % on signed integers truncates toward zero: the result has the
\* sign of the dividend.
RustRem(a, b) == IF a >= 0 THEN a % b ELSE -((-a) % b)

-----------------------------------------------------------------------------
(* nb.rs: coordinate wrap *)

wrap_idx_nocorrect(idx, limit) == RustRem(idx, limit)

wrap_idx(idx, limit) ==
    LET idx2 == RustRem(idx, limit)
    IN  IF idx2 < 0 THEN idx2 + limit ELSE idx2

\* lib.rs carries its own copy of the function.
lib_wrap_idx(idx, limit) ==
    LET idx2 == RustRem(idx, limit)
    IN  IF idx2 < 0 THEN idx2 + limit ELSE idx2

-----------------------------------------------------------------------------
(* nb.rs: NeighborhoodCoordinatesIterator *)

NciNew(row, col, range) ==
    [row |-> row, col |-> col,
     nbrow |-> row - range, nbcol |-> col - range,
     lastrow |-> row + range, lastcol |-> col + range,
     startcol |-> col - range, finished |-> FALSE]

NciAdvance(it) ==
    IF it.nbcol < it.lastcol
    THEN [it EXCEPT !.nbcol = @ + 1]
    ELSE IF it.nbrow < it.lastrow
         THEN [it EXCEPT !.nbrow = @ + 1, !.nbcol = it.startcol]
         ELSE [it EXCEPT !.finished = TRUE]

\* next(): None once finished, else the current coordinates, then advance.
NciNext(it) ==
    IF it.finished
    THEN [some |-> FALSE, pos |-> <<0, 0>>, it |-> it]
    ELSE [some |-> TRUE, pos |-> <<it.nbrow, it.nbcol>>, it |-> NciAdvance(it)]

-----------------------------------------------------------------------------
(* nb.rs: MooreNeighborhoodIterator *)

NbMooreNew(cells, width, height, row, col, range) ==
    [cells |-> cells, w |-> width, h |-> height, nci |-> NciNew(row, col, range)]

RECURSIVE NbMooreNext_nocentre(_)
NbMooreNext_nocentre(it) ==
    LET n == NciNext(it.nci)
        nx == [it EXCEPT !.nci = n.it]
    IN  IF n.some
        THEN LET row == wrap_idx(n.pos[1], it.h)
                 col == wrap_idx(n.pos[2], it.w)
             IN  [some |-> TRUE, val |-> it.cells[row][col], it |-> nx]
        ELSE [some |-> FALSE, val |-> 0, it |-> nx]

RECURSIVE NbMooreNext_wrapped(_)
NbMooreNext_wrapped(it) ==
    LET n == NciNext(it.nci)
        nx == [it EXCEPT !.nci = n.it]
    IN  IF n.some
        THEN LET row == wrap_idx(n.pos[1], it.h)
                 col == wrap_idx(n.pos[2], it.w)
             IN  IF it.nci.row = row /\ it.nci.col = col
                 THEN NbMooreNext_wrapped(nx)
                 ELSE [some |-> TRUE, val |-> it.cells[row][col], it |-> nx]
        ELSE [some |-> FALSE, val |-> 0, it |-> nx]

RECURSIVE NbMooreNext(_)
NbMooreNext(it) ==
    LET n == NciNext(it.nci)
        nx == [it EXCEPT !.nci = n.it]
    IN  IF n.some
        THEN IF it.nci.row = n.pos[1] /\ it.nci.col = n.pos[2]
             THEN NbMooreNext(nx)
             ELSE LET row == wrap_idx(n.pos[1], it.h)
                      col == wrap_idx(n.pos[2], it.w)
                  IN  [some |-> TRUE, val |-> it.cells[row][col], it |-> nx]
        ELSE [some |-> FALSE, val |-> 0, it |-> nx]

\* it.collect(): next() until None.
RECURSIVE NbMooreCollect(_)
NbMooreCollect(it) ==
    LET n == NbMooreNext(it)
    IN  IF n.some THEN <<n.val>> \o NbMooreCollect(n.it) ELSE <<>>

-----------------------------------------------------------------------------
(* nb.rs: VonNeumannNeighborhoodIterator *)

VonNeumannNew(cells, width, height, row, col, range) ==
    [cells |-> cells, w |-> width, h |-> height, range |-> range,
     nci |-> NciNew(row, col, range)]

RECURSIVE VonNeumannNext_chebyshev(_)
VonNeumannNext_chebyshev(it) ==
    LET n == NciNext(it.nci)
        nx == [it EXCEPT !.nci = n.it]
    IN  IF n.some
        THEN LET dr == Abs(it.nci.row - n.pos[1])
                 dc == Abs(it.nci.col - n.pos[2])
                 dist == IF dr > dc THEN dr ELSE dc
             IN  IF dist > it.range
                 THEN VonNeumannNext_chebyshev(nx)
                 ELSE IF it.nci.row = n.pos[1] /\ it.nci.col = n.pos[2]
                      THEN VonNeumannNext_chebyshev(nx)
                      ELSE LET row == wrap_idx(n.pos[1], it.h)
                               col == wrap_idx(n.pos[2], it.w)
                           IN  [some |-> TRUE, val |-> it.cells[row][col], it |-> nx]
        ELSE [some |-> FALSE, val |-> 0, it |-> nx]

RECURSIVE VonNeumannNext(_)
VonNeumannNext(it) ==
    LET n == NciNext(it.nci)
        nx == [it EXCEPT !.nci = n.it]
    IN  IF n.some
        THEN LET dist == Abs(it.nci.row - n.pos[1]) + Abs(it.nci.col - n.pos[2])
             IN  IF dist > it.range
                 THEN VonNeumannNext(nx)
                 ELSE IF it.nci.row = n.pos[1] /\ it.nci.col = n.pos[2]
                      THEN VonNeumannNext(nx)
                      ELSE LET row == wrap_idx(n.pos[1], it.h)
                               col == wrap_idx(n.pos[2], it.w)
                           IN  [some |-> TRUE, val |-> it.cells[row][col], it |-> nx]
        ELSE [some |-> FALSE, val |-> 0, it |-> nx]

RECURSIVE VonNeumannCollect(_)
VonNeumannCollect(it) ==
    LET n == VonNeumannNext(it)
    IN  IF n.some THEN <<n.val>> \o VonNeumannCollect(n.it) ELSE <<>>

-----------------------------------------------------------------------------
(* gen.rs: grids *)

\* points2d: a w x h grid of zeros with cells[y][x] = 1 for each (x, y).
points2d(w, h, coords) ==
    [y \in 0..(h - 1) |-> [x \in 0..(w - 1) |->
        IF <<x, y>> \in coords THEN 1 ELSE 0]]


\* The grid whose cell (r, c) holds r*w + c: the value names the position.
IndexGrid(h, w) == [r \in 0..(h - 1) |-> [c \in 0..(w - 1) |-> r * w + c]]

-----------------------------------------------------------------------------
(* Integer types of lib.rs *)

U8Max == 255

\* The outcome of a rule closure: a Cell, or a panic that unwinds the tick.
Ok(v) == [ok |-> TRUE, val |-> v]
Panic == [ok |-> FALSE, val |-> 0]

\* x + 1 on an unsigned integer of maximum max: a build with overflow checks
\* panics past the maximum, a build without them wraps to 0.
AddOne(x, max) ==
    IF x < max THEN Ok(x + 1)
    ELSE IF overflow_checks THEN Panic ELSE Ok(0)

-----------------------------------------------------------------------------
(* lib.rs: get_elementary_rule *)

\* code >> k & 1
Bit(code, k) == (code \div (2 ^ k)) % 2

\* The closure returned for `code`, applied to (cells, width, idx). An index
\* outside the vector panics, and so does a window holding a value other
\* than 0 or 1.
get_elementary_rule(code, cells, width, idx) ==
    LET li == IF idx <= 0 THEN width - 1 ELSE idx - 1
        ri == IF idx >= width THEN 0 ELSE idx + 1
    IN  IF li \notin DOMAIN cells \/ idx \notin DOMAIN cells \/ ri \notin DOMAIN cells
        THEN Panic
        ELSE LET left == cells[li]
                 center == cells[idx]
                 right == cells[ri]
                 nbh == <<left, center, right>>
             IN  CASE nbh = <<0, 0, 0>> -> Ok(Bit(code, 0))
                   [] nbh = <<0, 0, 1>> -> Ok(Bit(code, 1))
                   [] nbh = <<0, 1, 0>> -> Ok(Bit(code, 2))
                   [] nbh = <<0, 1, 1>> -> Ok(Bit(code, 3))
                   [] nbh = <<1, 0, 0>> -> Ok(Bit(code, 4))
                   [] nbh = <<1, 0, 1>> -> Ok(Bit(code, 5))
                   [] nbh = <<1, 1, 0>> -> Ok(Bit(code, 6))
                   [] nbh = <<1, 1, 1>> -> Ok(Bit(code, 7))
                   [] OTHER -> Panic

-----------------------------------------------------------------------------
(* lib.rs: CA1 *)

\* CA1::new is public and takes any boxed closure of type CA1Rule. This one
\* stands for a rule a caller of the library supplies: the new state of a
\* cell is the state of its left neighbour on the ring.
rotate_rule(cells, width, idx) == Ok(cells[(idx + width - 1) % width])

\* The boxed rule is the record of what the closure captured.
CA1Rule(rule, cells, width, idx) ==
    CASE rule.kind = "elementary" -> get_elementary_rule(rule.code, cells, width, idx)
      [] rule.kind = "rotate" -> rotate_rule(cells, width, idx)

CA1_new(cells, rule) ==
    [w |-> Cardinality(DOMAIN cells), cells |-> cells, future |-> cells, rule |-> rule]

CA1_new_elementary(cells, code) ==
    CA1_new(cells, [kind |-> "elementary", code |-> code])

\* Visiting order of the loop `for idx in 0..self.w`.
CA1Order(w) == [k \in 1..w |-> k - 1]

\* The loop of tick over the indexes order[k..]: every rule call reads
\* a.cells and writes a.future; a panic leaves the loop where it is.
RECURSIVE CA1FillFuture(_, _, _)
CA1FillFuture(a, order, k) ==
    IF k > Len(order)
    THEN [a |-> a, panicked |-> FALSE]
    ELSE LET idx == order[k]
             r == CA1Rule(a.rule, a.cells, a.w, idx)
         IN  IF ~r.ok
             THEN [a |-> a, panicked |-> TRUE]
             ELSE CA1FillFuture([a EXCEPT !.future[idx] = r.val], order, k + 1)

\* tick: fill the future buffer, then copy it into cells.
CA1_tick(a) ==
    LET f == CA1FillFuture(a, CA1Order(a.w), 1)
    IN  IF f.panicked
        THEN f
        ELSE [a |-> [f.a EXCEPT !.cells = f.a.future], panicked |-> FALSE]

-----------------------------------------------------------------------------
(* lib.rs: MooreNeighborhoodIterator (the copy the rules of lib.rs use) *)

LibMooreNew(cells, width, height, row, col, range) ==
    [cells |-> cells, width |-> width, height |-> height,
     row |-> row, col |-> col,
     nbrow |-> row - range, nbcol |-> col - range,
     lastrow |-> row + range, lastcol |-> col + range,
     startcol |-> col - range, finished |-> FALSE]

LibMooreAdvance(it) ==
    IF it.nbcol < it.lastcol
    THEN [it EXCEPT !.nbcol = @ + 1]
    ELSE IF it.nbrow < it.lastrow
         THEN [it EXCEPT !.nbrow = @ + 1, !.nbcol = it.startcol]
         ELSE [it EXCEPT !.finished = TRUE]

\* next(): the cell under the cursor, then advance, and once more when the
\* cursor has reached the centre.
LibMooreNext(it) ==
    IF it.finished
    THEN [some |-> FALSE, val |-> 0, it |-> it]
    ELSE LET row == lib_wrap_idx(it.nbrow, it.height)
             col == lib_wrap_idx(it.nbcol, it.width)
             result == it.cells[row][col]
             a1 == LibMooreAdvance(it)
             a2 == IF a1.nbrow = a1.row /\ a1.nbcol = a1.col
                   THEN LibMooreAdvance(a1) ELSE a1
         IN  [some |-> TRUE, val |-> result, it |-> a2]

\* it.collect()
RECURSIVE LibMooreCollect(_)
LibMooreCollect(it) ==
    LET n == LibMooreNext(it)
    IN  IF n.some THEN <<n.val>> \o LibMooreCollect(n.it) ELSE <<>>

-----------------------------------------------------------------------------
(* lib.rs: get_life_rule *)

\* for nb in iterator { if nb == 1 { live += 1 } }
RECURSIVE LifeCount_nonzero(_, _)
LifeCount_nonzero(it, live) ==
    LET n == LibMooreNext(it)
    IN  IF n.some
        THEN LifeCount_nonzero(n.it, IF n.val # 0 THEN live + 1 ELSE live)
        ELSE live

RECURSIVE LifeCount(_, _)
LifeCount(it, live) ==
    LET n == LibMooreNext(it)
    IN  IF n.some
        THEN LifeCount(n.it, IF n.val = 1 THEN live + 1 ELSE live)
        ELSE live

\* A life rule that looks a dead cell up in survive and a live one in birth.
get_life_rule_swapped(survive, birth, cells, w, h, row, col) ==
    LET live == LifeCount(LibMooreNew(cells, w, h, row, col, 1), 0)
    IN  IF cells[row][col] = 0
        THEN Ok(IF live \in survive THEN 1 ELSE 0)
        ELSE Ok(IF live \in birth THEN 1 ELSE 0)

get_life_rule(survive, birth, cells, w, h, row, col) ==
    LET live == LifeCount(LibMooreNew(cells, w, h, row, col, 1), 0)
    IN  IF cells[row][col] = 0
        THEN Ok(IF live \in birth THEN 1 ELSE 0)
        ELSE Ok(IF live \in survive THEN 1 ELSE 0)

-----------------------------------------------------------------------------
(* lib.rs: get_cyclic_rule *)

\* One pass of `for nb in iterator { if nb == next { cnt_next += 1 } }`,
\* cnt_next a u8 (it is compared with the u8 threshold). s holds the
\* iterator, the counter, whether the loop has ended and whether it panicked.
CyclicPass(s, next) ==
    IF s.done \/ ~s.ok
    THEN s
    ELSE LET n == LibMooreNext(s.it)
         IN  IF ~n.some
             THEN [s EXCEPT !.done = TRUE]
             ELSE IF n.val = next
                  THEN LET c == AddOne(s.cnt_next, U8Max)
                       IN  IF c.ok
                           THEN [s EXCEPT !.it = n.it, !.cnt_next = c.val]
                           ELSE [s EXCEPT !.ok = FALSE]
                  ELSE [s EXCEPT !.it = n.it]

\* n passes of the loop, evaluated in halves so that the evaluation stays
\* shallow on the neighbourhoods of hundreds of cells.
RECURSIVE CyclicPasses(_, _, _)
CyclicPasses(s, next, n) ==
    IF s.done \/ ~s.ok
    THEN s
    ELSE IF n <= 1
         THEN CyclicPass(s, next)
         ELSE CyclicPasses(CyclicPasses(s, next, n \div 2), next, n - (n \div 2))

\* The whole loop: the iterator of range r returns None after at most
\* (2r+1)^2 elements.
CyclicCount(it, next, range) ==
    LET s == CyclicPasses([it |-> it, cnt_next |-> 0, done |-> FALSE, ok |-> TRUE],
                          next, (2 * range + 1) * (2 * range + 1) + 1)
    IN  IF s.ok THEN Ok(s.cnt_next) ELSE Panic

\* The comparison with the threshold the other way round.
get_cyclic_rule_below(range, threshold, states, cells, w, h, row, col) ==
    LET cell == cells[row][col]
    IN  IF states = 0
        THEN Panic
        ELSE LET next == (cell + 1) % states
                 cnt == CyclicCount(LibMooreNew(cells, w, h, row, col, range), next, range)
             IN  IF ~cnt.ok THEN Panic
                 ELSE IF cnt.val <= threshold THEN Ok(next) ELSE Ok(cell)

\* cell + 1 is a u32 addition; the grids of the model hold values far below
\* 2^32 - 1, where it is exact. % panics on a zero state count.
\* A cyclic rule whose successor state is cell + 1, not reduced modulo states.
get_cyclic_rule_nomod(range, threshold, states, cells, w, h, row, col) ==
    LET cell == cells[row][col]
    IN  IF states = 0
        THEN Panic
        ELSE LET next == cell + 1
                 cnt == CyclicCount(LibMooreNew(cells, w, h, row, col, range), next, range)
             IN  IF ~cnt.ok THEN Panic
                 ELSE IF cnt.val >= threshold THEN Ok(next) ELSE Ok(cell)

get_cyclic_rule(range, threshold, states, cells, w, h, row, col) ==
    LET cell == cells[row][col]
    IN  IF states = 0
        THEN Panic
        ELSE LET next == (cell + 1) % states
                 cnt == CyclicCount(LibMooreNew(cells, w, h, row, col, range), next, range)
             IN  IF ~cnt.ok THEN Panic
                 ELSE IF cnt.val >= threshold THEN Ok(next) ELSE Ok(cell)

-----------------------------------------------------------------------------
(* lib.rs: CA2 *)

CA2Rule(rule, cells, w, h, row, col) ==
    CASE rule.kind = "life" ->
           get_life_rule(rule.survive, rule.birth, cells, w, h, row, col)
      [] rule.kind = "cyclic" ->
           get_cyclic_rule(rule.range, rule.threshold, rule.states,
                           cells, w, h, row, col)

CA2_new(cells, rule) ==
    [w |-> Cardinality(DOMAIN cells[0]), h |-> Cardinality(DOMAIN cells),
     cells |-> cells, future |-> cells, rule |-> rule]

CA2_new_life(cells, survive, birth) ==
    CA2_new(cells, [kind |-> "life", survive |-> survive, birth |-> birth])

CA2_new_cyclic(cells, range, threshold, states) ==
    CA2_new(cells, [kind |-> "cyclic", range |-> range,
                    threshold |-> threshold, states |-> states])

\* Visiting order of the loops `for row in 0..self.h { for col in 0..self.w`.
CA2Order(h, w) == [k \in 1..(h * w) |-> <<(k - 1) \div w, (k - 1) % w>>]

\* A tick that writes each new state straight into the grid it reads.
RECURSIVE CA2FillFuture_inplace(_, _, _)
CA2FillFuture_inplace(a, order, k) ==
    IF k > Len(order)
    THEN [a |-> a, panicked |-> FALSE]
    ELSE LET row == order[k][1]
             col == order[k][2]
             r == CA2Rule(a.rule, a.cells, a.w, a.h, row, col)
         IN  IF ~r.ok
             THEN [a |-> a, panicked |-> TRUE]
             ELSE CA2FillFuture_inplace(
                      [a EXCEPT !.future[row][col] = r.val,
                                !.cells[row][col] = r.val], order, k + 1)

\* The first loop nest of tick over the positions order[k..]: every rule
\* call reads a.cells and writes a.future.
RECURSIVE CA2FillFuture(_, _, _)
CA2FillFuture(a, order, k) ==
    IF k > Len(order)
    THEN [a |-> a, panicked |-> FALSE]
    ELSE LET row == order[k][1]
             col == order[k][2]
             r == CA2Rule(a.rule, a.cells, a.w, a.h, row, col)
         IN  IF ~r.ok
             THEN [a |-> a, panicked |-> TRUE]
             ELSE CA2FillFuture([a EXCEPT !.future[row][col] = r.val],
                                order, k + 1)

\* tick: fill the future buffer, then copy it row by row into cells.
CA2_tick(a) ==
    LET f == CA2FillFuture(a, CA2Order(a.h, a.w), 1)
    IN  IF f.panicked
        THEN f
        ELSE [a |-> [f.a EXCEPT !.cells = f.a.future], panicked |-> FALSE]

-----------------------------------------------------------------------------
(* main.rs: get_ca_view builds the automaton from the configuration *)

\* new_cyclic has one neighbourhood parameter, the range of the Moore
\* iterator: the range of the configured neighbourhood is what reaches it.
get_ca(cfg_type, cells) ==
    CASE cfg_type.kind = "elementary" -> CA1_new_elementary(cells, cfg_type.code)
      [] cfg_type.kind = "cyclic" ->
           CA2_new_cyclic(cells, cfg_type.nbh.range, cfg_type.threshold,
                          cfg_type.states)
      [] cfg_type.kind = "life" ->
           CA2_new_life(cells, cfg_type.survive, cfg_type.birth)

-----------------------------------------------------------------------------
(* Result<T, E> values, and a panic in place of a return *)

ROk(v) == [tag |-> "Ok", val |-> v]
RErr(e) == [tag |-> "Err", err |-> e]
RPanic == [tag |-> "panic"]

-----------------------------------------------------------------------------
(* The rule table builder of the general 1-D automaton, CA1::new_ca1 *)

\* A usize is UsizeLimbs digits of base LimbBase, least significant first
\* (64 bits).
LimbBase == 65536
UsizeLimbs == 4

UsizeOne == [k \in 1..UsizeLimbs |-> IF k = 1 THEN 1 ELSE 0]

\* limbs * m + carry, with one more limb than limbs for the carry out.
RECURSIVE LimbsTimes(_, _, _)
LimbsTimes(limbs, m, carry) ==
    IF limbs = <<>>
    THEN <<carry>>
    ELSE LET p == Head(limbs) * m + carry
         IN  <<p % LimbBase>> \o LimbsTimes(Tail(limbs), m, p \div LimbBase)

\* usize::checked_mul by a small factor: None when the product does not fit.
checked_mul(limbs, m) ==
    LET r == LimbsTimes(limbs, m, 0)
    IN  IF r[UsizeLimbs + 1] # 0
        THEN [some |-> FALSE]
        ELSE [some |-> TRUE, val |-> SubSeq(r, 1, UsizeLimbs)]

\* n checked multiplications by states, stopping at the first overflow; the
\* n steps are evaluated in halves so that the evaluation stays shallow.
RECURSIVE checked_muls(_, _, _)
checked_muls(r, states, n) ==
    IF ~r.some \/ n = 0
    THEN r
    ELSE IF n = 1
         THEN checked_mul(r.val, states)
         ELSE checked_muls(checked_muls(r, states, n \div 2), states, n - (n \div 2))

\* states^n.
checked_pow(acc, states, n) ==
    checked_muls([some |-> TRUE, val |-> acc], states, n)

\* The table size as a number, when it is small enough to be a code's length.
SmallSize(limbs) ==
    IF \A k \in 2..UsizeLimbs : limbs[k] = 0 THEN limbs[1] ELSE -1

\* Digits of the code alphabet, in the order of their values 0..35.
DigitChars ==
    <<"0", "1", "2", "3", "4", "5", "6", "7", "8", "9",
      "a", "b", "c", "d", "e", "f", "g", "h", "i", "j", "k", "l", "m",
      "n", "o", "p", "q", "r", "s", "t", "u", "v", "w", "x", "y", "z">>

IsDigitIn(c, base) == \E v \in 1..base : v <= Len(DigitChars) /\ DigitChars[v] = c

ERR_TOO_LARGE == "parameters too large"

\* The failures new_ca1 finds in its arguments; code is <<>> wrapped in
\* [some |-> FALSE] for a random code. A table size that does not fit is
\* found by the checked arithmetic; the code is validated against the table
\* size, after it is known.
new_ca1_errors(radius, states, code) ==
    LET size == checked_pow(UsizeOne, states, 2 * radius + 1)
    IN  (IF radius < 1 THEN {"radius out of range"} ELSE {})
        \cup (IF states < 2 \/ states > 36 THEN {"states out of range"} ELSE {})
        \cup (IF ~size.some THEN {ERR_TOO_LARGE} ELSE
               IF ~code.some THEN {} ELSE
               IF Len(code.val) # SmallSize(size.val) THEN {"invalid code length"} ELSE
               IF \E k \in 1..Len(code.val) : ~IsDigitIn(code.val[k], states)
               THEN {"invalid digit"} ELSE {})

\* CA1::new_ca1(cells, radius, states, code): the set of its possible
\* results. When several checks fail, the one reported is not fixed.
new_ca1(cells, radius, states, code) ==
    LET errs == new_ca1_errors(radius, states, code)
    IN  IF errs = {}
        THEN {ROk(CA1_new(cells, [kind |-> "ca1", radius |-> radius,
                                  states |-> states, code |-> code]))}
        ELSE {RErr(e) : e \in errs}

-----------------------------------------------------------------------------
(* Strings, as sequences of one-character strings *)

None == [some |-> FALSE]
Some(v) == [some |-> TRUE, val |-> v]

S_1 == <<"1">>
S_elementary == <<"e", "l", "e", "m", "e", "n", "t", "a", "r", "y">>
S_cyclic == <<"c", "y", "c", "l", "i", "c">>
S_life == <<"l", "i", "f", "e">>
S_random == <<"r", "a", "n", "d", "o", "m">>
S_uniform == <<"u", "n", "i", "f", "o", "r", "m">>
S_empty == <<"e", "m", "p", "t", "y">>
S_m == <<"m">>
S_n == <<"n">>
RANDOM_PREFIX == <<"r", "a", "n", "d", "o", "m", ":">>
POINTS_PREFIX == <<"p", "o", "i", "n", "t", "s", ":">>

\* The characters of the model that take more than one byte in UTF-8.
WideChars == {"é"}
ByteLen(c) == IF c \in WideChars THEN 2 ELSE 1

Decimal == <<"0", "1", "2", "3", "4", "5", "6", "7", "8", "9">>
IsDecimal(c) == \E v \in 1..Len(Decimal) : Decimal[v] = c
DecimalValue(c) == (CHOOSE v \in 1..Len(Decimal) : Decimal[v] = c) - 1

\* str::starts_with
starts_with(s, prefix) ==
    Len(s) >= Len(prefix) /\ SubSeq(s, 1, Len(prefix)) = prefix

\* s[n..] for a prefix of n one-byte characters
StrFrom(s, n) == SubSeq(s, n + 1, Len(s))

\* str::find(c): the 0-based position of the first c
find(s, c) ==
    IF \A k \in 1..Len(s) : s[k] # c
    THEN None
    ELSE Some((CHOOSE i \in 1..Len(s) :
                 s[i] = c /\ \A j \in 1..(i - 1) : s[j] # c) - 1)

\* str::split(sep), collected: the pieces between the separators; the empty
\* string has one empty piece.
RECURSIVE split(_, _)
split(s, sep) ==
    LET pos == find(s, sep)
    IN  IF ~pos.some
        THEN <<s>>
        ELSE <<SubSeq(s, 1, pos.val)>> \o split(StrFrom(s, pos.val + 1), sep)

\* The largest values of the unsigned types, in decimal digits.
U8MaxDigits == <<2, 5, 5>>
U32MaxDigits == <<4, 2, 9, 4, 9, 6, 7, 2, 9, 5>>
UsizeMaxDigits == <<1, 8, 4, 4, 6, 7, 4, 4, 0, 7, 3, 7, 0, 9, 5, 5, 1, 6, 1, 5>>

RECURSIVE StripZeros(_)
StripZeros(d) == IF d # <<>> /\ d[1] = 0 THEN StripZeros(Tail(d)) ELSE d

\* d <= m for digit sequences without leading zeros
DigitsLeq(d, m) ==
    \/ Len(d) < Len(m)
    \/ /\ Len(d) = Len(m)
       /\ \/ d = m
          \/ \E k \in 1..Len(d) :
                d[k] < m[k] /\ \A j \in 1..(k - 1) : d[j] = m[j]

RECURSIVE DigitsValue(_)
DigitsValue(d) ==
    IF d = <<>> THEN 0
    ELSE DigitsValue(SubSeq(d, 1, Len(d) - 1)) * 10 + d[Len(d)]

\* str::parse::<uN>(): an optional '+', then one or more decimal digits whose
\* value fits the type.
parse_uint(s, maxDigits) ==
    LET t == IF s # <<>> /\ s[1] = "+" THEN Tail(s) ELSE s
    IN  IF t = <<>> \/ \E k \in 1..Len(t) : ~IsDecimal(t[k])
        THEN None
        ELSE LET d == StripZeros([k \in 1..Len(t) |-> DecimalValue(t[k])])
             IN  IF DigitsLeq(d, maxDigits) THEN Some(DigitsValue(d)) ELSE None

-----------------------------------------------------------------------------
(* config.rs: the free arguments, args[idx] being the idx-th from 0 *)

ERR_INVALID_RANDOM == "Invalid 'random' parameters!"
ERR_NO_STATES == "STATES is not set!"
ERR_INVALID_STATES == "Invalid STATES value!"
ERR_NO_POINTS == "POINTS is not set!"
ERR_INVALID_POINTS == "Invalid POINTS value!"
ERR_NO_CODE == "Specify CODE value!"
ERR_Y_DISABLED == "random: Y1 and Y2 values are disabled for 1D CA!"

Arg(args, idx) == args[idx + 1]

\* A parser's Ok((value, idx)).
Parsed(val, idx) == ROk([val |-> val, idx |-> idx])

\* parse::<F>
parse(args, idx, maxDigits) ==
    IF Len(args) <= idx
    THEN RErr("")
    ELSE LET v == parse_uint(Arg(args, idx), maxDigits)
         IN  IF v.some THEN Parsed(v.val, idx + 1) ELSE RErr("")

parse_ca1(args, idx) ==
    LET radius == parse(args, idx, U8MaxDigits)
    IN  IF radius.tag = "Err"
        THEN RErr("RADIUS must be unsigned 8-bit integer!")
        ELSE LET states == parse(args, radius.val.idx, U8MaxDigits)
             IN  IF states.tag = "Err"
                 THEN RErr("STATES must be unsigned 8-bit integer!")
                 ELSE LET i == states.val.idx
                      IN  IF Len(args) < i
                          THEN RErr(ERR_NO_CODE)
                          ELSE IF i >= Len(args)
                          THEN RPanic
                          ELSE Parsed([kind |-> "ca1",
                                       radius |-> radius.val.val,
                                       states |-> states.val.val,
                                       code |-> IF Arg(args, i) = S_random
                                                THEN None
                                                ELSE Some(Arg(args, i))],
                                      i + 1)

parse_elementary_ca(args, idx) ==
    LET code == parse(args, idx, U8MaxDigits)
    IN  IF code.tag = "Err"
        THEN RErr("CODE must be unsigned 8-bit integer!")
        ELSE Parsed([kind |-> "elementary", code |-> code.val.val], code.val.idx)

\* &args[idx][..1] panics when byte 1 is past the end of the string or inside
\* its first character.
parse_neighborhood(args, idx) ==
    IF Len(args) <= idx
    THEN RErr("Expected neighborhood, found end of args!")
    ELSE LET a == Arg(args, idx)
         IN  IF a = <<>> \/ ByteLen(a[1]) # 1
             THEN RPanic
             ELSE IF SubSeq(a, 1, 1) \in {S_m, S_n}
             THEN LET range == parse_uint(StrFrom(a, 1), U32MaxDigits)
                  IN  IF range.some
                      THEN Parsed([shape |-> IF SubSeq(a, 1, 1) = S_m
                                             THEN "Moore" ELSE "VonNeumann",
                                   range |-> range.val], idx + 1)
                      ELSE RErr("Neighborhood range must be unsigned 32-bit integer!")
             ELSE RErr("Neighborhood must start with 'm' or 'n'!")

parse_cyclic_ca(args, idx) ==
    LET nb == parse_neighborhood(args, idx)
    IN  IF nb.tag # "Ok"
        THEN nb
        ELSE LET threshold == parse(args, nb.val.idx, U8MaxDigits)
             IN  IF threshold.tag = "Err"
                 THEN RErr("THRESHOLD must be unsigned 8-bit integer!")
                 ELSE LET states == parse(args, threshold.val.idx, U32MaxDigits)
                      IN  IF states.tag = "Err"
                          THEN RErr("STATES must be unsigned 32-bit integer!")
                          ELSE Parsed([kind |-> "cyclic", nbh |-> nb.val.val,
                                       threshold |-> threshold.val.val,
                                       states |-> states.val.val],
                                      states.val.idx)

\* The loop of parse_u32_csv and of the other lists: every piece parsed, None
\* at the first piece that does not parse.
RECURSIVE ParseAll(_, _)
ParseAll(pieces, maxDigits) ==
    IF pieces = <<>>
    THEN Some(<<>>)
    ELSE LET x == parse_uint(Head(pieces), maxDigits)
         IN  IF ~x.some
             THEN None
             ELSE LET rest == ParseAll(Tail(pieces), maxDigits)
                  IN  IF rest.some THEN Some(<<x.val>> \o rest.val) ELSE None

parse_u32_csv(s, sep) ==
    IF s = S_empty THEN Some(<<>>) ELSE ParseAll(split(s, sep), U32MaxDigits)

parse_life_ca(args, idx) ==
    IF Len(args) <= idx
    THEN RErr("SURVIVE is not set!")
    ELSE LET survive == parse_u32_csv(Arg(args, idx), ",")
         IN  IF ~survive.some
             THEN RErr("Invalid SURVIVE value!")
             ELSE IF Len(args) <= idx + 1
             THEN RErr("BIRTH is not set!")
             ELSE LET birth == parse_u32_csv(Arg(args, idx + 1), ",")
                  IN  IF ~birth.some
                      THEN RErr("Invalid BIRTH value!")
                      ELSE Parsed([kind |-> "life", survive |-> survive.val,
                                   birth |-> birth.val], idx + 2)

parse_ca_type(args) ==
    IF Len(args) <= 0
    THEN RErr("Specify CA type!")
    ELSE LET r == CASE Arg(args, 0) = S_1 -> parse_ca1(args, 1)
                    [] Arg(args, 0) = S_elementary -> parse_elementary_ca(args, 1)
                    [] Arg(args, 0) = S_cyclic -> parse_cyclic_ca(args, 1)
                    [] Arg(args, 0) = S_life -> parse_life_ca(args, 1)
                    [] OTHER -> RErr("Unknown CA type!")
         IN  IF r.tag # "Ok"
             THEN r
             ELSE IF r.val.idx < Len(args)
                  THEN RErr("Trailing args!")
                  ELSE ROk(r.val.val)

-----------------------------------------------------------------------------
(* config.rs: the --init option *)

\* V or V*N: Some(<<state, count>>)
parse_init_state(part) ==
    LET pos == find(part, "*")
    IN  IF ~pos.some
        THEN LET val == parse_uint(part, U32MaxDigits)
             IN  IF val.some THEN Some(<<val.val, 1>>) ELSE None
        ELSE LET val == parse_uint(SubSeq(part, 1, pos.val), U32MaxDigits)
                 count == parse_uint(StrFrom(part, pos.val + 1), U32MaxDigits)
             IN  IF val.some /\ count.some
                 THEN Some(<<val.val, count.val>>)
                 ELSE None

\* The states loop over the pieces: count copies of every state, in order.
RECURSIVE InitStates(_)
InitStates(pieces) ==
    IF pieces = <<>>
    THEN Some(<<>>)
    ELSE LET x == parse_init_state(Head(pieces))
         IN  IF ~x.some
             THEN None
             ELSE LET rest == InitStates(Tail(pieces))
                  IN  IF rest.some
                      THEN Some([k \in 1..x.val[2] |-> x.val[1]] \o rest.val)
                      ELSE None

\* 0..states
UniformStates(states) == [k \in 1..states |-> k - 1]

\* The uniform state list that gives the general 1-D automaton its own states.
uniform_states_ca1(ca) ==
    IF ca.kind \in {"cyclic", "ca1"} THEN UniformStates(ca.states) ELSE <<0, 1>>

uniform_states(ca) ==
    IF ca.kind = "cyclic" THEN UniformStates(ca.states) ELSE <<0, 1>>

\* The region X1[,X2[,Y1[,Y2]]]: the k-th value, None when it is left out.
RegionPart(rparts, k) ==
    IF Len(rparts) < k THEN Some(None)
    ELSE LET v == parse_uint(rparts[k], UsizeMaxDigits)
         IN  IF v.some THEN Some(Some(v.val)) ELSE None

\* The check of the region against the type of the automaton.
YDisabled(ca, y1, y2) == ca.kind = "elementary" /\ (y1.some \/ y2.some)

\* parse_init_random: the states loop splits the whole value s at the commas.
parse_init_random(s, ca) ==
    IF s = <<>> THEN RErr(ERR_NO_STATES) ELSE
    LET parts == split(s, ":")
    IN  IF Len(parts) > 2 THEN RErr(ERR_INVALID_RANDOM) ELSE
        LET states == IF parts[1] = S_uniform
                      THEN Some(uniform_states(ca))
                      ELSE InitStates(split(s, ","))
        IN  IF ~states.some THEN RErr(ERR_INVALID_STATES) ELSE
            LET rparts == IF Len(parts) = 1 THEN <<>> ELSE split(parts[2], ",")
                x1 == RegionPart(rparts, 1)
                x2 == RegionPart(rparts, 2)
                y1 == RegionPart(rparts, 3)
                y2 == RegionPart(rparts, 4)
            IN  IF ~x1.some THEN RErr("random: invalid X1 value!")
                ELSE IF ~x2.some THEN RErr("random: invalid X2 value!")
                ELSE IF ~y1.some THEN RErr("random: invalid Y1 value!")
                ELSE IF ~y2.some THEN RErr("random: invalid Y2 value!")
                ELSE IF YDisabled(ca, y1.val, y2.val) THEN RErr(ERR_Y_DISABLED)
                ELSE ROk([kind |-> "Random", states |-> states.val,
                          x1 |-> x1.val, x2 |-> x2.val,
                          y1 |-> y1.val, y2 |-> y2.val])

parse_points1d(s) ==
    LET indexes == parse_u32_csv(s, ";")
    IN  IF indexes.some
        THEN ROk([kind |-> "Points1D", points |-> indexes.val])
        ELSE RErr("")

\* The loop of parse_points2d over the pieces X,Y.
RECURSIVE Points2D(_)
Points2D(pieces) ==
    IF pieces = <<>>
    THEN Some(<<>>)
    ELSE LET point_str == split(Head(pieces), ",")
         IN  IF Len(point_str) # 2
             THEN None
             ELSE LET x == parse_uint(point_str[1], UsizeMaxDigits)
                      y == parse_uint(point_str[2], UsizeMaxDigits)
                  IN  IF ~x.some \/ ~y.some
                      THEN None
                      ELSE LET rest == Points2D(Tail(pieces))
                           IN  IF rest.some
                               THEN Some(<<<<x.val, y.val>>>> \o rest.val)
                               ELSE None

parse_points2d(s) ==
    LET points == Points2D(split(s, ";"))
    IN  IF points.some
        THEN ROk([kind |-> "Points2D", points |-> points.val])
        ELSE RErr("")

parse_init_points(s, ca) ==
    IF s = <<>>
    THEN RErr(ERR_NO_POINTS)
    ELSE LET r == IF ca.kind = "elementary"
                  THEN parse_points1d(s)
                  ELSE parse_points2d(s)
         IN  IF r.tag = "Ok" THEN r ELSE RErr(ERR_INVALID_POINTS)

\* parse_init_type: no --init is random:uniform.
parse_init_type(option_value, ca) ==
    LET s == IF option_value.some
             THEN option_value.val
             ELSE RANDOM_PREFIX \o S_uniform
    IN  IF starts_with(s, RANDOM_PREFIX)
        THEN parse_init_random(StrFrom(s, Len(RANDOM_PREFIX)), ca)
        ELSE IF starts_with(s, POINTS_PREFIX)
        THEN parse_init_points(StrFrom(s, Len(POINTS_PREFIX)), ca)
        ELSE RErr("Unknown initialization type!")

\* The second statement of from_matches and its result: the initialization
\* parsed for the type ca_type.
from_matches_init(ca, init) ==
    LET init_type == parse_init_type(init, ca)
    IN  IF init_type.tag # "Ok"
        THEN init_type
        ELSE ROk([ca_type |-> ca, init_type |-> init_type.val])

\* Config::from_matches, for a command line without --size, --cell, --delay.
from_matches(free, init) ==
    LET ca == parse_ca_type(free)
    IN  IF ca.tag # "Ok"
        THEN ca
        ELSE CHOOSE cfg \in {from_matches_init(t, init) : t \in {ca.val}} : TRUE

-----------------------------------------------------------------------------
(* Values of the variables a specification does not use *)

WrapIdle ==
    /\ wrap_in = [idx |-> 0, limit |-> 1]
    /\ wrap_out = [done |-> TRUE, nb |-> 0, lib |-> 0]

NbIdle ==
    /\ nb_in = [cells |-> IndexGrid(1, 1), w |-> 1, h |-> 1,
                row |-> 0, col |-> 0, range |-> 0]
    /\ nb_out = [moore_done |-> TRUE, moore |-> <<>>,
                 vn_done |-> TRUE, vonneumann |-> <<>>,
                 lib_done |-> TRUE, lib_moore |-> <<>>]

CaIdle ==
    /\ ca_type = [kind |-> "none"]
    /\ automaton = [w |-> 0, cells |-> <<>>, future |-> <<>>]
    /\ cells0 = <<>>
    /\ gen = 0
    /\ failed = FALSE
    /\ overflow_checks = TRUE

CfgIdle ==
    /\ cfg_in = [free |-> <<>>, init |-> None]
    /\ cfg_out = [done |-> TRUE]

\* get_ca_view's outcome: "none" (not called), "built" or "error" (Err(err)).
ViewOf(state, err) == [state |-> state, err |-> err, drawn |-> 0]

ViewIdle == view = ViewOf("none", "")

-----------------------------------------------------------------------------
(* SpecWrap: wrap_idx on drawn arguments *)

InitWrap ==
    /\ wrap_in \in [idx : (-MaxIdx)..MaxIdx, limit : 1..MaxLimit]
    /\ wrap_out = [done |-> FALSE, nb |-> 0, lib |-> 0]
    /\ NbIdle
    /\ CaIdle
    /\ CfgIdle
    /\ ViewIdle

CallWrapIdx ==
    /\ ~wrap_out.done
    /\ wrap_out' = [done |-> TRUE,
                    nb |-> wrap_idx(wrap_in.idx, wrap_in.limit),
                    lib |-> lib_wrap_idx(wrap_in.idx, wrap_in.limit)]
    /\ UNCHANGED <<wrap_in, nbVars, caVars, cfgVars, view>>

NextWrap == CallWrapIdx

SpecWrap == InitWrap /\ [][NextWrap]_vars

-----------------------------------------------------------------------------
(* SpecNb: the nb.rs iterators on drawn grids, centres and ranges *)

\* Grids of the nb.rs tests (3 x 3), beside the index grid of each size.
TestGridMoore == points2d(3, 3, {<<0, 0>>, <<1, 1>>, <<2, 2>>})
TestGridVonNeumann ==
    points2d(3, 3, {<<0, 0>>, <<0, 1>>, <<1, 0>>, <<1, 1>>, <<2, 2>>})

NbGrids(h, w) ==
    {IndexGrid(h, w)} \cup
    (IF h = 3 /\ w = 3 THEN {TestGridMoore, TestGridVonNeumann} ELSE {})

InitNb ==
    /\ \E h \in 1..NbMaxH, w \in 1..NbMaxW, range \in 0..NbMaxRange :
         \E row \in 0..(h - 1), col \in 0..(w - 1), cells \in NbGrids(h, w) :
            nb_in = [cells |-> cells, w |-> w, h |-> h,
                     row |-> row, col |-> col, range |-> range]
    /\ nb_out = [moore_done |-> FALSE, moore |-> <<>>,
                 vn_done |-> FALSE, vonneumann |-> <<>>,
                 lib_done |-> FALSE, lib_moore |-> <<>>]
    /\ WrapIdle
    /\ CaIdle
    /\ CfgIdle
    /\ ViewIdle

CollectMoore ==
    /\ ~nb_out.moore_done
    /\ nb_out' = [nb_out EXCEPT
         !.moore_done = TRUE,
         !.moore = NbMooreCollect(NbMooreNew(nb_in.cells, nb_in.w, nb_in.h,
                                             nb_in.row, nb_in.col, nb_in.range))]
    /\ UNCHANGED <<nb_in, wrapVars, caVars, cfgVars, view>>

CollectVonNeumann ==
    /\ ~nb_out.vn_done
    /\ nb_out' = [nb_out EXCEPT
         !.vn_done = TRUE,
         !.vonneumann = VonNeumannCollect(
             VonNeumannNew(nb_in.cells, nb_in.w, nb_in.h,
                           nb_in.row, nb_in.col, nb_in.range))]
    /\ UNCHANGED <<nb_in, wrapVars, caVars, cfgVars, view>>

\* The iterator of lib.rs, collected as its test collects it.
CollectLibMoore ==
    /\ ~nb_out.lib_done
    /\ nb_out' = [nb_out EXCEPT
         !.lib_done = TRUE,
         !.lib_moore = LibMooreCollect(
             LibMooreNew(nb_in.cells, nb_in.w, nb_in.h,
                         nb_in.row, nb_in.col, nb_in.range))]
    /\ UNCHANGED <<nb_in, wrapVars, caVars, cfgVars, view>>

NextNb == CollectMoore \/ CollectVonNeumann \/ CollectLibMoore

SpecNb == InitNb /\ [][NextNb]_vars

-----------------------------------------------------------------------------
(* The automaton specifications: get_ca_view, then the event loop's ticks *)

Dims(maxArea) ==
    {d \in (1..maxArea) \X (1..maxArea) : d[1] * d[2] <= maxArea}

Grids1(w, values) == [0..(w - 1) -> values]
Grids2(h, w, values) == [0..(h - 1) -> [0..(w - 1) -> values]]

\* The view is built: the automaton holds the initial grid, nothing has ticked.
BuiltWith(cfg_type, a, cells, checks) ==
    /\ ca_type = cfg_type
    /\ automaton = a
    /\ cells0 = cells
    /\ gen = 0
    /\ failed = FALSE
    /\ overflow_checks = checks
    /\ WrapIdle
    /\ NbIdle
    /\ CfgIdle
    /\ view = ViewOf("built", "")

\* The automaton the program builds from a configuration.
Built(cfg_type, cells, checks) ==
    BuiltWith(cfg_type, get_ca(cfg_type, cells), cells, checks)

\* The elementary and the life rule hold no arithmetic that can overflow
\* (live is a u32 of at most 8): their behaviour is that of either build.
InitElementary ==
    \E code \in 0..U8Max, w \in 1..MaxW1 :
        \E cells \in Grids1(w, CellValues) :
            Built([kind |-> "elementary", code |-> code], cells, TRUE)

InitLife ==
    \E rule \in LifeRules, d \in Dims(MaxAreaLife) :
        \E cells \in Grids2(d[1], d[2], CellValues) :
            Built([kind |-> "life", survive |-> rule[1], birth |-> rule[2]],
                  cells, TRUE)

\* Grids of a cyclic automaton hold states below the state count: the
\* first two and the last one. With at most (2*MaxRange+1)^2 neighbours the
\* u8 counter cannot overflow, and the behaviour is that of either build.
CyclicValues(states) == {v \in {0, 1, states - 1} : v < states}

InitCyclic ==
    \E shape \in {"Moore", "VonNeumann"}, range \in 0..MaxRange,
       threshold \in Thresholds, states \in CyclicStates, d \in Dims(MaxArea) :
        \E cells \in Grids2(d[1], d[2], CyclicValues(states)) :
            Built([kind |-> "cyclic",
                   nbh |-> [shape |-> shape, range |-> range],
                   threshold |-> threshold, states |-> states], cells, TRUE)

\* A 1-D automaton built by a caller of the library with its own rule.
InitLibrary ==
    \E w \in 1..MaxW1 :
        \E cells \in Grids1(w, CellValues) :
            BuiltWith([kind |-> "library"],
                      CA1_new(cells, [kind |-> "rotate"]), cells, TRUE)

CountOf(cells, v) ==
    Cardinality({p \in (DOMAIN cells) \X (DOMAIN cells[0]) : cells[p[1]][p[2]] = v})

\* The u8 counter can overflow only with more than 255 neighbours.
CanOverflow(range) == (2 * range + 1) * (2 * range + 1) - 1 > U8Max
Builds(range) == IF CanOverflow(range) THEN BOOLEAN ELSE {TRUE}

WideGrids ==
    {g \in Grids2(WideDims[1], WideDims[2], {0, 1}) :
        g[0][0] = 0 /\ CountOf(g, 1) \in WideOnes}

InitCyclicWide ==
    \E range \in WideRanges :
        \E cells \in WideGrids, checks \in Builds(range) :
            /\ Built([kind |-> "cyclic",
                      nbh |-> [shape |-> "Moore", range |-> range],
                      threshold |-> U8Max, states |-> 8], cells, checks)

Init == InitElementary \/ InitLibrary \/ InitLife \/ InitCyclic

\* CA1::tick, as CA1View::tick calls it. A panic ends the process.
TickCA1 ==
    /\ ca_type.kind \in {"elementary", "library"}
    /\ ~failed
    /\ gen < MaxTicks
    /\ \E t \in {CA1_tick(automaton)} :
          /\ automaton' = t.a
          /\ failed' = t.panicked
          /\ gen' = IF t.panicked THEN gen ELSE gen + 1
    /\ UNCHANGED <<ca_type, cells0, overflow_checks, wrapVars, nbVars, cfgVars, view>>

\* CA2View::tick -> CA2::tick, called at most limit times.
TickCA2Upto(limit) ==
    /\ ca_type.kind \in {"life", "cyclic"}
    /\ ~failed
    /\ gen < limit
    /\ \E t \in {CA2_tick(automaton)} :
          /\ automaton' = t.a
          /\ failed' = t.panicked
          /\ gen' = IF t.panicked THEN gen ELSE gen + 1
    /\ UNCHANGED <<ca_type, cells0, overflow_checks, wrapVars, nbVars, cfgVars, view>>

TickCA2 == TickCA2Upto(MaxTicks)

Next == TickCA1 \/ TickCA2

Spec == Init /\ [][Next]_vars
SpecElementary == InitElementary /\ [][TickCA1]_vars
SpecLife == InitLife /\ [][TickCA2]_vars
SpecCyclic == InitCyclic /\ [][TickCA2]_vars
SpecCyclicAll == (InitCyclic \/ InitCyclicWide) /\ [][TickCA2]_vars

\* parse_cyclic_ca accepts every u32 as STATES; the two smallest.
DegenerateStates == {0, 1}

\* Cyclic automata with fewer than two states, on grids an explicit list of
\* initial states (random:0,1) or a list of points produces.
InitCyclicDegenerate ==
    \E shape \in {"Moore", "VonNeumann"}, range \in 0..MaxRange,
       threshold \in Thresholds, states \in DegenerateStates, d \in Dims(MaxArea) :
        \E cells \in Grids2(d[1], d[2], {0, 1}) :
            Built([kind |-> "cyclic",
                   nbh |-> [shape |-> shape, range |-> range],
                   threshold |-> threshold, states |-> states], cells, TRUE)

SpecCyclicAny == (InitCyclic \/ InitCyclicDegenerate) /\ [][TickCA2]_vars

SpecBounded ==
    (InitElementary \/ InitLife \/ InitCyclic \/ InitCyclicDegenerate)
        /\ [][Next]_vars

-----------------------------------------------------------------------------
(* SpecCA1: get_ca_view building the general 1-D automaton *)

\* RADIUS and STATES are any u8 (parse_ca1); the values round the largest
\* table that fits, and the ends of the type.
CA1Radii == {0, 1, 5, 6, 7, 8, 31, 32, 255}
CA1States == {0, 1, 2, 16, 36, 37, 255}

\* CODE: random, rule 110 as eight binary digits, a short code, a bad digit.
CA1Codes ==
    {None,
     Some(<<"0", "1", "1", "0", "1", "1", "1", "0">>),
     Some(<<"0", "1">>),
     Some(<<"0", "1", "1", "0", "1", "1", "1", "2">>)}

NoAutomaton == [w |-> 0, cells |-> <<>>, future |-> <<>>]

\* get_ca_view has the configuration and the random1d cells, and has not
\* called the constructor yet.
InitCA1 ==
    \E radius \in CA1Radii, states \in CA1States, code \in CA1Codes,
       w \in 1..MaxW1 :
        \E cells \in Grids1(w, {0, 1}) :
            /\ ca_type = [kind |-> "ca1", radius |-> radius,
                          states |-> states, code |-> code]
            /\ automaton = NoAutomaton
            /\ cells0 = cells
            /\ gen = 0
            /\ failed = FALSE
            /\ overflow_checks = TRUE
            /\ WrapIdle
            /\ NbIdle
            /\ CfgIdle
            /\ ViewIdle

\* A caller that unwraps the constructor's result.
TryNewCa1_unwrap(r) ==
    IF r.tag = "Ok"
    THEN [a |-> r.val, view |-> ViewOf("built", ""), panicked |-> FALSE]
    ELSE [a |-> automaton, view |-> view, panicked |-> TRUE]

\* try!(ca::CA1::new_ca1(..)): an Err is returned to execute, which prints it.
TryNewCa1(r) ==
    IF r.tag = "Ok"
    THEN [a |-> r.val, view |-> ViewOf("built", ""), panicked |-> FALSE]
    ELSE [a |-> automaton, view |-> ViewOf("error", r.err), panicked |-> FALSE]

\* get_ca_view, the CAType::CA1 arm.
GetCaViewCA1 ==
    /\ ca_type.kind = "ca1"
    /\ view.state = "none"
    /\ ~failed
    /\ \E r \in new_ca1(cells0, ca_type.radius, ca_type.states, ca_type.code) :
          LET t == TryNewCa1(r)
          IN  /\ automaton' = t.a
              /\ view' = t.view
              /\ failed' = t.panicked
    /\ UNCHANGED <<ca_type, cells0, gen, overflow_checks,
                   wrapVars, nbVars, cfgVars>>

SpecCA1 == InitCA1 /\ [][GetCaViewCA1]_vars

-----------------------------------------------------------------------------
(* SpecConfig: Config::from_matches on drawn command lines *)
\* Free arguments of the general 1-D type: complete, with five states, with a
\* code, without CODE, without STATES.
CA1Args ==
    {<<<<"1">>, <<"1">>, <<"2">>, <<"r", "a", "n", "d", "o", "m">>>>,
     <<<<"1">>, <<"1">>, <<"5">>, <<"r", "a", "n", "d", "o", "m">>>>,
     <<<<"1">>, <<"1">>, <<"2">>, <<"0", "1", "1", "0", "1", "1", "1", "0">>>>,
     <<<<"1">>, <<"1">>, <<"2">>>>,
     <<<<"1">>, <<"1">>>>}
\* Free arguments of the elementary type: a code, a code past u8, a trailing
\* argument.
ElementaryArgs ==
    {<<<<"e", "l", "e", "m", "e", "n", "t", "a", "r", "y">>, <<"1", "1", "0">>>>,
     <<<<"e", "l", "e", "m", "e", "n", "t", "a", "r", "y">>, <<"2", "5", "6">>>>,
     <<<<"e", "l", "e", "m", "e", "n", "t", "a", "r", "y">>, <<"1", "1", "0">>, <<"1">>>>}
\* Neighbourhood arguments: well formed, and malformed in every way the match
\* of parse_neighborhood tells apart.
NeighborhoodArgs ==
    {<<"m", "1">>,
     <<"n", "2">>,
     <<"m", "0">>,
     <<>>,
     <<"x", "1">>,
     <<"m">>,
     <<"m", "x">>,
     <<"n", "-", "1">>,
     <<"1">>,
     <<"é", "1">>}
\* Free arguments of the cyclic type, with three or nineteen states.
CyclicArgs ==
    {<<S_cyclic, nb, <<"1">>, states>> :
        nb \in NeighborhoodArgs, states \in {<<"3">>, <<"1", "9">>}}
    \cup {<<S_cyclic>>, <<S_cyclic, <<"m", "1">>, <<"1">>, <<"0">>>>}

\* Free arguments of the life type.
LifeArgs ==
    {<<<<"l", "i", "f", "e">>, <<"2", ",", "3">>, <<"3">>>>,
     <<<<"l", "i", "f", "e">>, <<"e", "m", "p", "t", "y">>, <<"3">>>>,
     <<<<"l", "i", "f", "e">>, <<"2", ",", "x">>, <<"3">>>>,
     <<<<"l", "i", "f", "e">>, <<"2", ",", "3">>>>}
\* No type, and an unknown one.
OtherArgs ==
    {<<>>,
     <<<<"b", "o", "g", "u", "s">>>>}
FreeArgs == CA1Args \cup ElementaryArgs \cup CyclicArgs \cup LifeArgs \cup OtherArgs

\* Values of --init: uniform and listed states, without and with a region of
\* one to four values, points in one and two dimensions, and malformed ones.
InitValues ==
    {None,
     Some(<<"r", "a", "n", "d", "o", "m", ":", "u", "n", "i", "f", "o", "r", "m">>),
     Some(<<"r", "a", "n", "d", "o", "m", ":", "u", "n", "i", "f", "o", "r", "m", ":", "0", ",", "5">>),
     Some(<<"r", "a", "n", "d", "o", "m", ":", "u", "n", "i", "f", "o", "r", "m", ":", "0", ",", "5", ",", "0">>),
     Some(<<"r", "a", "n", "d", "o", "m", ":", "u", "n", "i", "f", "o", "r", "m", ":", "0", ",", "5", ",", "0", ",", "5">>),
     Some(<<"r", "a", "n", "d", "o", "m", ":", "u", "n", "i", "f", "o", "r", "m", ":", "x">>),
     Some(<<"r", "a", "n", "d", "o", "m", ":", "0", ",", "1">>),
     Some(<<"r", "a", "n", "d", "o", "m", ":", "0", ",", "1", "*", "2">>),
     Some(<<"r", "a", "n", "d", "o", "m", ":", "0", ",", "1", ":", "2", ",", "5">>),
     Some(<<"r", "a", "n", "d", "o", "m", ":", "1", "*", "2", ":", "2">>),
     Some(<<"r", "a", "n", "d", "o", "m", ":", "0", ",", "1", ":", "2", ",", "5", ",", "0", ",", "5">>),
     Some(<<"r", "a", "n", "d", "o", "m", ":", "1", "8">>),
     Some(<<"r", "a", "n", "d", "o", "m", ":", "0", ",", "x">>),
     Some(<<"r", "a", "n", "d", "o", "m", ":">>),
     Some(<<"r", "a", "n", "d", "o", "m", ":", "0", ":", "1", ":", "2">>),
     Some(<<"p", "o", "i", "n", "t", "s", ":", "1", ";", "2">>),
     Some(<<"p", "o", "i", "n", "t", "s", ":", "1", ",", "2", ";", "0", ",", "0">>),
     Some(<<"p", "o", "i", "n", "t", "s", ":">>),
     Some(<<"b", "o", "g", "u", "s">>)}

InitConfig ==
    /\ cfg_in \in [free : FreeArgs, init : InitValues]
    /\ cfg_out = [done |-> FALSE]
    /\ WrapIdle
    /\ NbIdle
    /\ CaIdle
    /\ ViewIdle

\* execute: Config::from_matches(&matches); a panic ends the process.
FromMatches ==
    /\ ~cfg_out.done
    /\ \E res \in {from_matches(cfg_in.free, cfg_in.init)} :
          /\ cfg_out' = [done |-> TRUE, res |-> res]
          /\ failed' = (res.tag = "panic")
    /\ UNCHANGED <<cfg_in, ca_type, automaton, cells0, gen, overflow_checks,
                   wrapVars, nbVars, view>>

SpecConfig == InitConfig /\ [][FromMatches]_vars

-----------------------------------------------------------------------------
(* SpecView: a 2-D automaton from the command line to the event loop *)

\* make_palette: the number of colours
PaletteLen == 18

\* Elements of a Vec, as a set.
Elems(v) == {v[k] : k \in DOMAIN v}

\* The bounds of a filled range: from the given start, to the given end cut
\* at the size of the grid.
RangeMin(i1) == IF i1.some THEN i1.val ELSE 0
RangeMax(i2, limit) ==
    IF i2.some THEN (IF i2.val < limit THEN i2.val ELSE limit) ELSE limit

\* gen::random2d: the grids rng.choose can produce, as Ok values, or a panic
\* where choose finds no state to unwrap.
random2d(w, h, states, x1, x2, y1, y2) ==
    LET filled == {pt \in (0..(h - 1)) \X (0..(w - 1)) :
                      /\ RangeMin(y1) <= pt[1] /\ pt[1] < RangeMax(y2, h)
                      /\ RangeMin(x1) <= pt[2] /\ pt[2] < RangeMax(x2, w)}
    IN  IF filled # {} /\ states = <<>>
        THEN {RPanic}
        ELSE {ROk(g) : g \in
                {g \in Grids2(h, w, Elems(states) \cup {0}) :
                    \A pt \in (0..(h - 1)) \X (0..(w - 1)) :
                        pt \notin filled => g[pt[1]][pt[2]] = 0}}

\* The automaton type as the constructors take it: new_life looks the count
\* up in survive and birth.
TypeOfConfig(ca) ==
    IF ca.kind = "life"
    THEN [kind |-> "life", survive |-> Elems(ca.survive), birth |-> Elems(ca.birth)]
    ELSE ca

\* ca_width and ca_height: the window size in cells, <<height, width>>.
ViewDims == {<<1, 1>>, <<1, 2>>}

ViewArgs ==
    {<<<<"c", "y", "c", "l", "i", "c">>, <<"m", "1">>, <<"1">>, <<"3">>>>,
     <<<<"c", "y", "c", "l", "i", "c">>, <<"m", "1">>, <<"1">>, <<"1", "9">>>>,
     <<<<"c", "y", "c", "l", "i", "c">>, <<"n", "1">>, <<"0">>, <<"0">>>>,
     <<<<"l", "i", "f", "e">>, <<"2", ",", "3">>, <<"3">>>>}

ViewInits ==
    {None,
     Some(<<"r", "a", "n", "d", "o", "m", ":", "0", ",", "1">>),
     Some(<<"r", "a", "n", "d", "o", "m", ":", "1", "8">>),
     Some(<<"r", "a", "n", "d", "o", "m", ":", "u", "n", "i", "f", "o", "r", "m", ":", "1">>)}

InitView ==
    /\ cfg_in \in [free : ViewArgs, init : ViewInits]
    /\ cfg_out = [done |-> FALSE]
    /\ WrapIdle
    /\ NbIdle
    /\ CaIdle
    /\ ViewIdle

\* get_ca_view, the arm of the 2-D types with a Random initialization.
GetCaView2D ==
    /\ cfg_out.done
    /\ cfg_out.res.tag = "Ok"
    /\ cfg_out.res.val.ca_type.kind \in {"cyclic", "life"}
    /\ cfg_out.res.val.init_type.kind = "Random"
    /\ view.state = "none"
    /\ ~failed
    /\ \E d \in ViewDims :
        LET it == cfg_out.res.val.init_type
        IN  \E r \in random2d(d[2], d[1], it.states, it.x1, it.x2, it.y1, it.y2) :
              IF r.tag = "panic"
              THEN /\ failed' = TRUE
                   /\ UNCHANGED <<ca_type, automaton, cells0, view>>
              ELSE /\ ca_type' = TypeOfConfig(cfg_out.res.val.ca_type)
                   /\ automaton' = get_ca(ca_type', r.val)
                   /\ cells0' = r.val
                   /\ view' = ViewOf("built", "")
                   /\ failed' = FALSE
    /\ UNCHANGED <<gen, overflow_checks, wrapVars, nbVars, cfgVars>>

\* The cells draw_ca visits: caview.cells()[row][col] over height and width.
DrawnCells(a) ==
    {a.cells[row][col] : row \in 0..(a.h - 1), col \in 0..(a.w - 1)}

\* draw_ca on a CA2View: state_to_color indexes the palette with every cell.
DrawCA ==
    /\ view.state = "built"
    /\ "h" \in DOMAIN automaton
    /\ ~failed
    /\ view.drawn = gen
    /\ IF \E cell \in DrawnCells(automaton) : cell >= PaletteLen
       THEN failed' = TRUE /\ view' = view
       ELSE failed' = FALSE /\ view' = [view EXCEPT !.drawn = gen + 1]
    /\ UNCHANGED <<ca_type, automaton, cells0, gen, overflow_checks,
                   wrapVars, nbVars, cfgVars>>

\* The event loop ticks the view after it has drawn it.
ViewTick ==
    /\ view.drawn = gen + 1
    /\ TickCA2Upto(MaxTicks)

NextView == FromMatches \/ GetCaView2D \/ DrawCA \/ ViewTick

SpecView == InitView /\ [][NextView]_vars

-----------------------------------------------------------------------------
(* SpecBlinker: Conway's life on a grid seeded with a three-cell line *)

\* points2d of the three cells of the row (column) through centre c = <<row,
\* col>>, wrapped on the torus.
HorizontalLine(h, w, c) ==
    points2d(w, h, {<<(c[2] + d) % w, c[1]>> : d \in -1..1})
VerticalLine(h, w, c) ==
    points2d(w, h, {<<c[2], (c[1] + d) % h>> : d \in -1..1})

BlinkerSides == 5..MaxBlinkerSide

InitBlinker ==
    \E h \in BlinkerSides, w \in BlinkerSides :
        \E c \in (0..(h - 1)) \X (0..(w - 1)) :
            Built([kind |-> "life", survive |-> {2, 3}, birth |-> {3}],
                  HorizontalLine(h, w, c), TRUE)

TickBlinker == TickCA2Upto(MaxBlinkerTicks)

SpecBlinker == InitBlinker /\ [][TickBlinker]_vars

-----------------------------------------------------------------------------
(* SpecInit: the initialization get_ca_view is given by the parser *)

\* get_ca_view, the match on cfg.init_type in the arm of the automaton type:
\* the generator of the cells it selects, or unreachable!().
GetCaViewCells ==
    /\ cfg_out.done
    /\ cfg_out.res.tag = "Ok"
    /\ view.state = "none"
    /\ ~failed
    /\ LET ca == cfg_out.res.val.ca_type
           it == cfg_out.res.val.init_type
       IN  IF ca.kind \in {"elementary", "ca1"}
           THEN CASE it.kind = "Random" ->
                       view' = ViewOf("random1d", "") /\ failed' = FALSE
                  [] it.kind = "Points1D" ->
                       view' = ViewOf("points1d", "") /\ failed' = FALSE
                  [] OTHER -> view' = view /\ failed' = TRUE
           ELSE CASE it.kind = "Random" ->
                       view' = ViewOf("random2d", "") /\ failed' = FALSE
                  [] it.kind = "Points2D" ->
                       view' = ViewOf("points2d", "") /\ failed' = FALSE
                  [] OTHER -> view' = view /\ failed' = TRUE
    /\ UNCHANGED <<ca_type, automaton, cells0, gen, overflow_checks,
                   wrapVars, nbVars, cfgVars>>

NextInit == FromMatches \/ GetCaViewCells

SpecInit == InitConfig /\ [][NextInit]_vars

-----------------------------------------------------------------------------
(* SpecHistory: a CA1View from its construction through the event loop's ticks *)

\* vec![vec![0; w]; height]
ZeroRows(w, height) == [row \in 0..(height - 1) |-> [col \in 0..(w - 1) |-> 0]]

\* CA1View::new, for a height of at least one row; the view owns the
\* automaton, which the model keeps in the variable automaton.
CA1View_new(a, height) ==
    [state |-> "built", err |-> "", drawn |-> 0,
     cells |-> [ZeroRows(a.w, height) EXCEPT ![0] = a.cells],
     height |-> height, current_row |-> 0, last_row |-> height - 1]

\* for row in 0..last_row { for col in 0..w { cells[row][col] = cells[row+1][col] } }
RECURSIVE ShiftRows(_, _, _)
ShiftRows(cells, row, last_row) ==
    IF row >= last_row
    THEN cells
    ELSE ShiftRows([cells EXCEPT ![row] = cells[row + 1]], row + 1, last_row)

\* A full view that overwrites its last row without moving the others.
CA1View_tick_noshift(v, a) ==
    LET t == CA1_tick(a)
    IN  IF t.panicked
        THEN [v |-> v, a |-> t.a, panicked |-> TRUE]
        ELSE IF v.current_row < v.last_row
             THEN [v |-> [v EXCEPT !.current_row = @ + 1,
                                   !.cells[v.current_row + 1] = t.a.cells],
                   a |-> t.a, panicked |-> FALSE]
             ELSE [v |-> [v EXCEPT !.cells[v.last_row] = t.a.cells],
                   a |-> t.a, panicked |-> FALSE]

\* CA1View::tick on the view v and its automaton a.
CA1View_tick(v, a) ==
    LET t == CA1_tick(a)
    IN  IF t.panicked
        THEN [v |-> v, a |-> t.a, panicked |-> TRUE]
        ELSE IF v.current_row < v.last_row
             THEN [v |-> [v EXCEPT !.current_row = @ + 1,
                                   !.cells[v.current_row + 1] = t.a.cells],
                   a |-> t.a, panicked |-> FALSE]
             ELSE [v |-> [v EXCEPT
                            !.cells = [ShiftRows(v.cells, 0, v.last_row)
                                          EXCEPT ![v.last_row] = t.a.cells]],
                   a |-> t.a, panicked |-> FALSE]

\* Views of an elementary automaton and of a 1-D automaton built by
\* CA1::new with a rule of its caller.
InitHistory ==
    \E w \in 1..MaxViewW, height \in 1..MaxViewHeight :
        \/ \E cells \in Grids1(w, {0, 1}) :
              /\ ca_type = [kind |-> "elementary", code |-> 110]
              /\ automaton = CA1_new_elementary(cells, 110)
              /\ cells0 = cells
              /\ view = CA1View_new(automaton, height)
        \/ \E cells \in Grids1(w, CellValues) :
              /\ ca_type = [kind |-> "library"]
              /\ automaton = CA1_new(cells, [kind |-> "rotate"])
              /\ cells0 = cells
              /\ view = CA1View_new(automaton, height)

InitHistoryView ==
    /\ InitHistory
    /\ gen = 0
    /\ failed = FALSE
    /\ overflow_checks = TRUE
    /\ WrapIdle
    /\ NbIdle
    /\ CfgIdle

\* The event loop's ca_view.tick() on a CA1View.
TickCA1View ==
    /\ ca_type.kind \in {"elementary", "library"}
    /\ "current_row" \in DOMAIN view
    /\ ~failed
    /\ gen < MaxViewTicks
    /\ \E t \in {CA1View_tick(view, automaton)} :
          /\ view' = t.v
          /\ automaton' = t.a
          /\ failed' = t.panicked
          /\ gen' = IF t.panicked THEN gen ELSE gen + 1
    /\ UNCHANGED <<ca_type, cells0, overflow_checks, wrapVars, nbVars, cfgVars>>

SpecHistory == InitHistoryView /\ [][TickCA1View]_vars

-----------------------------------------------------------------------------
(* SpecPeriod: cyclic automata with threshold 0, ticked through a period *)

\* Small grids at the ranges 0..MaxRange, where the u8 counter cannot
\* overflow, with every state count up to MaxPeriod.
InitPeriodSmall ==
    \E range \in 0..MaxRange, states \in 1..MaxPeriod, d \in Dims(MaxArea) :
        \E cells \in Grids2(d[1], d[2], CyclicValues(states)) :
            Built([kind |-> "cyclic",
                   nbh |-> [shape |-> "Moore", range |-> range],
                   threshold |-> 0, states |-> states], cells, TRUE)

\* Two states on the wide grids, at ranges of hundreds of neighbours, in
\* the builds with and without overflow checks.
InitPeriodWide ==
    \E range \in WideRanges :
        \E cells \in WideGrids, checks \in Builds(range) :
            Built([kind |-> "cyclic",
                   nbh |-> [shape |-> "Moore", range |-> range],
                   threshold |-> 0, states |-> 2], cells, checks)

TickPeriod == TickCA2Upto(MaxPeriod)

SpecPeriod == (InitPeriodSmall \/ InitPeriodWide) /\ [][TickPeriod]_vars

-----------------------------------------------------------------------------
(* Reference enumeration of a neighbourhood, for the iterator claims *)

\* Offsets (drow, dcol) of the (2r+1) x (2r+1) square in row-major order.
SquareOffsets(r) ==
    LET n == 2 * r + 1
    IN  [k \in 1..(n * n) |-> <<((k - 1) \div n) - r, ((k - 1) % n) - r>>]

IsMooreOffset(o) == o # <<0, 0>>
MooreOffsets(r) == SelectSeq(SquareOffsets(r), IsMooreOffset)

VonNeumannOffsets(r) ==
    SelectSeq(SquareOffsets(r),
              LAMBDA o : o # <<0, 0>> /\ Abs(o[1]) + Abs(o[2]) <= r)

\* The cell a pre-wrap offset lands on, on the torus.
CellAtOffset(in, o) ==
    in.cells[(in.row + o[1]) % in.h][(in.col + o[2]) % in.w]

ValuesAt(in, offs) == [j \in 1..Len(offs) |-> CellAtOffset(in, offs[j])]

\* The offsets of the square, other than (0,0), that wrap onto the centre cell.
CentreAliases(in) ==
    {j \in 1..Len(MooreOffsets(in.range)) :
        LET o == MooreOffsets(in.range)[j]
        IN  (in.row + o[1]) % in.h = in.row /\ (in.col + o[2]) % in.w = in.col}

-----------------------------------------------------------------------------
(* C7: for every limit L > 0 and every integer i, wrap_idx(i, L) lies in     *)
(* [0, L) and is congruent to i modulo L, for the copy of nb.rs and the copy *)
(* of lib.rs; wrap_idx(-3,10) = 7, wrap_idx(3,10) = 3, wrap_idx(13,10) = 3.  *)
C7_WrapIdxInRangeAndCongruent ==
    wrap_out.done =>
        /\ wrap_out.nb \in 0..(wrap_in.limit - 1)
        /\ (wrap_out.nb - wrap_in.idx) % wrap_in.limit = 0
        /\ wrap_out.lib \in 0..(wrap_in.limit - 1)
        /\ (wrap_out.lib - wrap_in.idx) % wrap_in.limit = 0
        /\ (wrap_in = [idx |-> -3, limit |-> 10] => wrap_out.nb = 7)
        /\ (wrap_in = [idx |-> 3, limit |-> 10] => wrap_out.nb = 3)
        /\ (wrap_in = [idx |-> 13, limit |-> 10] => wrap_out.nb = 3)

\* wrap_idx has been applied to a negative index that is no multiple of the limit.
C7_Witness ==
    /\ wrap_out.done
    /\ wrap_in = [idx |-> -3, limit |-> 10]
    /\ wrap_out.nb = 7
    /\ wrap_out.lib = 7

-----------------------------------------------------------------------------
(* C4: the Moore iterator of nb.rs yields, for every grid size, centre and   *)
(* range r >= 1, the cells at the wrapped positions of the (2r+1) x (2r+1)   *)
(* square in row-major order, without the one pre-wrap position equal to the *)
(* centre: (2r+1)^2 - 1 values whatever the grid size, the positions that    *)
(* wrap onto the centre cell included. On the 3 x 3 test grid the            *)
(* neighbours of (1,1) at range 1 are 1,0,0,0,0,0,0,1.                       *)
C4_MooreYieldsSquareWithoutCentre ==
    (nb_out.moore_done /\ nb_in.range >= 1) =>
        /\ nb_out.moore = ValuesAt(nb_in, MooreOffsets(nb_in.range))
        /\ Len(nb_out.moore) = (2 * nb_in.range + 1) * (2 * nb_in.range + 1) - 1
        /\ \A j \in CentreAliases(nb_in) :
              nb_out.moore[j] = nb_in.cells[nb_in.row][nb_in.col]
        /\ (/\ nb_in.cells = TestGridMoore
            /\ nb_in.row = 1 /\ nb_in.col = 1 /\ nb_in.range = 1)
              => nb_out.moore = <<1, 0, 0, 0, 0, 0, 0, 1>>

\* The iterator ran on an index grid narrower than the square, and yielded
\* the centre cell through a wrapped alias.
C4_Witness ==
    /\ nb_out.moore_done
    /\ nb_in.range = 2
    /\ nb_in.w = 2 /\ nb_in.h = 3
    /\ nb_in.cells = IndexGrid(3, 2)
    /\ CentreAliases(nb_in) # {}
    /\ \E j \in 1..Len(nb_out.moore) :
          nb_out.moore[j] = nb_in.cells[nb_in.row][nb_in.col]
    /\ Len(nb_out.moore) = 24

-----------------------------------------------------------------------------
(* C5: the Von Neumann iterator of nb.rs traverses the same square in the    *)
(* same row-major order and yields exactly the positions whose pre-wrap      *)
(* Manhattan distance from the centre is between 1 and r: 2*r*(r+1) values.  *)
(* On the 3 x 3 test grid the neighbours of (1,1) at range 1 are 1,1,0,0.    *)
C5_VonNeumannYieldsDiamond ==
    (nb_out.vn_done /\ nb_in.range >= 1) =>
        /\ nb_out.vonneumann = ValuesAt(nb_in, VonNeumannOffsets(nb_in.range))
        /\ Len(nb_out.vonneumann) = 2 * nb_in.range * (nb_in.range + 1)
        /\ (/\ nb_in.cells = TestGridVonNeumann
            /\ nb_in.row = 1 /\ nb_in.col = 1 /\ nb_in.range = 1)
              => nb_out.vonneumann = <<1, 1, 0, 0>>

\* The iterator ran at range 2 on the 3 x 3 index grid, where the diamond
\* (12 positions) differs from the square (24).
C5_Witness ==
    /\ nb_out.vn_done
    /\ nb_in.range = 2
    /\ nb_in.cells = IndexGrid(3, 3)
    /\ nb_in.row = 1 /\ nb_in.col = 1
    /\ nb_out.vonneumann = <<7, 0, 1, 2, 5, 3, 5, 3, 6, 7, 8, 1>>

-----------------------------------------------------------------------------
(* C6: with range = 0 the Moore and the Von Neumann iterators of nb.rs yield *)
(* no element, for every grid and every centre.                              *)
C6_RangeZeroYieldsNothing ==
    nb_in.range = 0 =>
        /\ nb_out.moore_done => nb_out.moore = <<>>
        /\ nb_out.vn_done => nb_out.vonneumann = <<>>

\* Both iterators were collected at range 0 on a grid of more than one cell.
C6_Witness ==
    /\ nb_in.range = 0
    /\ nb_in.h = 2 /\ nb_in.w = 3
    /\ nb_out.moore_done /\ nb_out.vn_done
    /\ nb_out.moore = <<>> /\ nb_out.vonneumann = <<>>

-----------------------------------------------------------------------------
(* Reference next-state functions, for the rule claims *)

\* The cell at (row, col) of the torus, for any integers row and col.
Torus(cells, row, col) ==
    cells[row % Cardinality(DOMAIN cells)][col % Cardinality(DOMAIN cells[0])]

Positions(cells) == (DOMAIN cells) \X (DOMAIN cells[0])

\* Number of the offsets offs whose cell around (row, col) holds v.
CountAround(cells, row, col, offs, v) ==
    Cardinality({j \in 1..Len(offs) :
                    Torus(cells, row + offs[j][1], col + offs[j][2]) = v})

LifeNext(cells, survive, birth, row, col) ==
    LET live == CountAround(cells, row, col, MooreOffsets(1), 1)
    IN  IF cells[row][col] = 0
        THEN IF live \in birth THEN 1 ELSE 0
        ELSE IF live \in survive THEN 1 ELSE 0

\* The cyclic rule over the configured neighbourhood shape and range.
CyclicNext(cells, nbh, threshold, states, row, col) ==
    LET cell == cells[row][col]
        next == (cell + 1) % states
        offs == IF nbh.shape = "VonNeumann"
                THEN VonNeumannOffsets(nbh.range)
                ELSE MooreOffsets(nbh.range)
    IN  IF CountAround(cells, row, col, offs, next) >= threshold
        THEN next ELSE cell

\* Bit number 4*left + 2*center + right of the code, on the ring.
RingBit(code, cells, w, idx) ==
    Bit(code, 4 * cells[(idx - 1) % w] + 2 * cells[idx] + cells[(idx + 1) % w])

IsBinary1(cells) == \A i \in DOMAIN cells : cells[i] \in {0, 1}

-----------------------------------------------------------------------------
(* The tick, seen from outside, for the synchrony claim *)

Is1D(a) == "h" \notin DOMAIN a

\* The rule applied to every cell of the grid a.cells.
RuleOfGrid(a) ==
    IF Is1D(a)
    THEN [idx \in DOMAIN a.cells |-> CA1Rule(a.rule, a.cells, a.w, idx).val]
    ELSE [row \in DOMAIN a.cells |-> [col \in DOMAIN a.cells[row] |->
             CA2Rule(a.rule, a.cells, a.w, a.h, row, col).val]]

Reverse(seq) == [k \in 1..Len(seq) |-> seq[Len(seq) + 1 - k]]

\* The future buffer the fill loop leaves when it visits the cells in the
\* reverse of the code's order.
FutureInReverseOrder(a) ==
    IF Is1D(a)
    THEN CA1FillFuture(a, Reverse(CA1Order(a.w)), 1).a.future
    ELSE CA2FillFuture(a, Reverse(CA2Order(a.h, a.w)), 1).a.future

\* The entries of the future buffer that a step has written.
Written(a, b) ==
    IF Is1D(a)
    THEN {idx \in DOMAIN a.future : b.future[idx] # a.future[idx]}
    ELSE {p \in Positions(a.future) : b.future[p[1]][p[2]] # a.future[p[1]][p[2]]}

FutureAt(a, p) == IF Is1D(a) THEN a.future[p] ELSE a.future[p[1]][p[2]]
RuleAt(a, p) ==
    IF Is1D(a)
    THEN CA1Rule(a.rule, a.cells, a.w, p)
    ELSE CA2Rule(a.rule, a.cells, a.w, a.h, p[1], p[2])

-----------------------------------------------------------------------------
(* C1: CA1::tick and CA2::tick are synchronous. After a tick every cell of   *)
(* the current grid equals the rule applied to the grid as it was before the *)
(* tick, and the same grid results when the cells are visited in the reverse *)
(* order. The current grid is written only by a tick that has filled the     *)
(* whole future buffer: a tick that panics leaves it untouched, and every    *)
(* entry it wrote to the future buffer came from the grid before the tick.   *)
C1_TickIsSynchronous ==
    [][/\ (gen' = gen + 1) =>
            /\ automaton'.cells = RuleOfGrid(automaton)
            /\ automaton'.cells = FutureInReverseOrder(automaton)
       /\ (automaton'.cells # automaton.cells) => (gen' = gen + 1)
       /\ (failed' /\ ~failed) =>
            /\ automaton'.cells = automaton.cells
            /\ \A p \in Written(automaton, automaton') :
                  /\ RuleAt(automaton, p).ok
                  /\ FutureAt(automaton', p) = RuleAt(automaton, p).val
      ]_vars

\* A 2-D tick has completed and changed the grid, on a grid where writing
\* the new states in place would have given another result.
C1_Witness ==
    /\ ~Is1D(automaton)
    /\ gen = 1
    /\ automaton.cells # cells0
    /\ LET a0 == [automaton EXCEPT !.cells = cells0, !.future = cells0]
       IN  CA2FillFuture_inplace(a0, CA2Order(a0.h, a0.w), 1).a.cells
              # automaton.cells

-----------------------------------------------------------------------------
(* C2: once constructed, an elementary automaton's tick cannot fail: for     *)
(* every code 0..255, every width w >= 1 and every grid of 0s and 1s, tick   *)
(* completes without an out-of-range index or panic, any number of times.    *)
C2_ElementaryTickCannotFail ==
    (ca_type.kind = "elementary" /\ IsBinary1(cells0)) => ~failed

-----------------------------------------------------------------------------
(* C3: the elementary rule treats the grid as a ring and returns bit number  *)
(* 4*left + 2*center + right of the code, for every index 0..w-1: the left   *)
(* neighbour of index 0 is cell w-1, the right neighbour of w-1 is cell 0.   *)
C3_ElementaryRuleIsRingBit ==
    (ca_type.kind = "elementary" /\ IsBinary1(automaton.cells)) =>
        \A idx \in 0..(automaton.w - 1) :
            get_elementary_rule(ca_type.code, automaton.cells, automaton.w, idx)
               = Ok(RingBit(ca_type.code, automaton.cells, automaton.w, idx))

-----------------------------------------------------------------------------
(* C8: the life-like rule counts the Moore range-1 neighbours whose value is *)
(* exactly 1; a cell of value 0 becomes 1 iff the count is in the birth set, *)
(* a cell of any nonzero value becomes 1 iff the count is in the survive     *)
(* set, and every other cell becomes 0. With an empty birth (survive) set no *)
(* cell is born (survives).                                                  *)
C8_LifeRule ==
    [][(ca_type.kind = "life" /\ gen' = gen + 1) =>
          \A p \in Positions(automaton.cells) :
             LET now == automaton.cells[p[1]][p[2]]
                 new == automaton'.cells[p[1]][p[2]]
             IN  /\ new = LifeNext(automaton.cells, ca_type.survive,
                                   ca_type.birth, p[1], p[2])
                 /\ (ca_type.birth = {} /\ now = 0) => new = 0
                 /\ (ca_type.survive = {} /\ now # 0) => new = 0
      ]_vars

\* One tick of a life automaton has given birth to a cell and kept alive a
\* cell of value 2, next to a neighbour of value 2 that was not counted.
C8_Witness ==
    /\ ca_type.kind = "life"
    /\ gen = 1
    /\ ~failed
    /\ \E p \in Positions(cells0) :
          cells0[p[1]][p[2]] = 0 /\ automaton.cells[p[1]][p[2]] = 1
    /\ \E p \in Positions(cells0) :
          /\ cells0[p[1]][p[2]] = 2
          /\ automaton.cells[p[1]][p[2]] = 1
          /\ CountAround(cells0, p[1], p[2], MooreOffsets(1), 2) > 0

-----------------------------------------------------------------------------
(* C9: the cyclic rule counts neighbours within the configured shape and     *)
(* range: with VonNeumann(r) only the cells within Manhattan distance r,     *)
(* with Moore(r) all cells of the square. The cell becomes (cell+1) mod      *)
(* states iff the number of those neighbours equal to that successor is      *)
(* >= threshold, and is unchanged otherwise.                                 *)
C9_CyclicRuleFollowsShape ==
    [][(ca_type.kind = "cyclic" /\ gen' = gen + 1) =>
          \A p \in Positions(automaton.cells) :
             automaton'.cells[p[1]][p[2]] =
                CyclicNext(automaton.cells, ca_type.nbh, ca_type.threshold,
                           ca_type.states, p[1], p[2])
      ]_vars

-----------------------------------------------------------------------------
(* C10: a cyclic automaton with states = 8 and threshold = 255 never changes *)
(* any cell, for every initial grid with cells in 0..7 and any number of     *)
(* ticks. As claimed: for every configured neighbourhood range.              *)
IsC10Config ==
    /\ ca_type.kind = "cyclic"
    /\ ca_type.states = 8
    /\ ca_type.threshold = 255
    /\ \A p \in Positions(cells0) : cells0[p[1]][p[2]] \in 0..7

C10_NeverChangesAtAnyRange ==
    IsC10Config => automaton.cells = cells0

\* Amended: for every range whose square holds fewer than 255 neighbours
\* (range <= 7).
C10_NeverChangesBelow255Neighbours ==
    (/\ IsC10Config
     /\ (2 * ca_type.nbh.range + 1) * (2 * ca_type.nbh.range + 1) - 1 < 255)
        => automaton.cells = cells0

\* Two ticks have run at range 7 (224 neighbours) on a grid where a cell has
\* neighbours holding its successor, and the grid is the initial one.
C10_Witness ==
    /\ IsC10Config
    /\ ca_type.nbh.range = 7
    /\ gen >= 2
    /\ ~failed
    /\ \E p \in Positions(cells0) :
          /\ cells0[p[1]][p[2]] = 0
          /\ CountAround(cells0, p[1], p[2], MooreOffsets(7), 1) >= 80
    /\ automaton.cells = cells0

-----------------------------------------------------------------------------
(* C11: under Life with survive = {2,3} and birth = {3}, a three-cell        *)
(* blinker on an otherwise empty torus of at least 5 x 5 has period 2: one   *)
(* tick turns the horizontal line into the vertical line through the same    *)
(* centre, two ticks restore the initial grid, for any number of             *)
(* repetitions.                                                              *)
C11_BlinkerHasPeriodTwo ==
    (/\ ca_type.kind = "life"
     /\ ca_type.survive = {2, 3}
     /\ ca_type.birth = {3}
     /\ ~Is1D(automaton)
     /\ automaton.h >= 5
     /\ automaton.w >= 5) =>
        \A c \in Positions(cells0) :
            cells0 = HorizontalLine(automaton.h, automaton.w, c) =>
                /\ ~failed
                /\ automaton.cells =
                     IF gen % 2 = 0
                     THEN cells0
                     ELSE VerticalLine(automaton.h, automaton.w, c)

\* A blinker whose line wraps round the edges of a 5 x 6 torus has been
\* ticked through two periods and shows the initial grid again.
C11_Witness ==
    /\ ca_type.kind = "life"
    /\ ~Is1D(automaton)
    /\ automaton.h = 5
    /\ automaton.w = 6
    /\ cells0 = HorizontalLine(5, 6, <<0, 0>>)
    /\ gen = 4
    /\ automaton.cells = cells0

-----------------------------------------------------------------------------
AllBelow(cells, n) ==
    \A p \in Positions(cells) : cells[p[1]][p[2]] \in 0..(n - 1)

(* C12: cell values stay below the state count. Once a Life automaton has    *)
(* ticked, its cells are all 0 or 1 whatever the initial grid held; an       *)
(* elementary automaton's cells are all 0 or 1 (every value its tick writes  *)
(* is a bit, and a 0/1 grid stays a 0/1 grid); a cyclic automaton with       *)
(* states >= 1 whose initial cells are all below states keeps all cells      *)
(* below states.                                                             *)
C12_CellsBelowStateCount ==
    /\ (ca_type.kind = "life" /\ gen >= 1) => AllBelow(automaton.cells, 2)
    /\ ca_type.kind = "elementary" =>
          /\ (gen >= 1 \/ IsBinary1(cells0)) => IsBinary1(automaton.cells)
          /\ \A idx \in DOMAIN automaton.future :
                automaton.future[idx] # cells0[idx] =>
                    automaton.future[idx] \in {0, 1}
    /\ (/\ ca_type.kind = "cyclic"
        /\ ca_type.states >= 1
        /\ AllBelow(cells0, ca_type.states)) =>
            AllBelow(automaton.cells, ca_type.states)

\* A cyclic cell that started in the last state, states - 1, has wrapped round
\* to state 0.
C12_Witness ==
    /\ ca_type.kind = "cyclic"
    /\ ca_type.states >= 2
    /\ gen >= 1
    /\ AllBelow(cells0, ca_type.states)
    /\ \E p \in Positions(cells0) :
          /\ cells0[p[1]][p[2]] = ca_type.states - 1
          /\ automaton.cells[p[1]][p[2]] = 0

-----------------------------------------------------------------------------
(* C13: for every threshold and every state count that parse_cyclic_ca       *)
(* accepts (any u32 STATES, 0 and 1 included), CA2::new_cyclic followed by   *)
(* any number of tick calls never fails.                                     *)
C13_CyclicTickNeverFails ==
    ca_type.kind = "cyclic" => ~failed

-----------------------------------------------------------------------------
\* The largest n with states^n <= 2^64 - 1, for the state counts of CA1States
\* that have one.
MaxExponent(states) ==
    CASE states = 2 -> 63
      [] states = 16 -> 15
      [] states = 36 -> 12
      [] states = 37 -> 12
      [] states = 255 -> 8

\* states^(2*radius+1) does not fit the index type.
DoesNotFit(radius, states) ==
    states >= 2 /\ 2 * radius + 1 > MaxExponent(states)

-----------------------------------------------------------------------------
(* The command line, read as the usage text describes it *)

\* The type of the automaton, when the free arguments are accepted.
ParsedType == parse_ca_type(cfg_in.free)
TypeAccepted == ParsedType.tag = "Ok"
TypeKind == IF TypeAccepted THEN ParsedType.val.kind ELSE "none"

\* The text after "random:", when --init is given with that prefix.
IsRandomInit ==
    cfg_in.init.some /\ starts_with(cfg_in.init.val, RANDOM_PREFIX)
RandomBody == StrFrom(cfg_in.init.val, Len(RANDOM_PREFIX))

\* STATES and the region of random:STATES:X1[,X2[,Y1[,Y2]]].
StatesText == split(RandomBody, ":")[1]
HasRegion == Len(split(RandomBody, ":")) = 2
RegionTexts == split(split(RandomBody, ":")[2], ",")
RegionIsValid ==
    /\ HasRegion
    /\ Len(RegionTexts) \in 1..4
    /\ \A k \in 1..Len(RegionTexts) : parse_uint(RegionTexts[k], UsizeMaxDigits).some
RegionValue(k) ==
    IF k <= Len(RegionTexts)
    THEN Some(parse_uint(RegionTexts[k], UsizeMaxDigits).val)
    ELSE None
GivesY == RegionIsValid /\ Len(RegionTexts) >= 3

\* STATES is a list V[*N],... and not the word uniform.
StatesAreListed ==
    StatesText # S_uniform /\ InitStates(split(StatesText, ",")).some

(* C15: an --init value random:STATES:X1[,X2[,Y1[,Y2]]] whose STATES is a    *)
(* comma-separated list of states (with optional V*N repetition) is          *)
(* accepted, and yields a Random initialization with exactly those states    *)
(* and exactly that region.                                                  *)
C15_ListedStatesWithRegion ==
    (/\ cfg_out.done
     /\ TypeAccepted
     /\ IsRandomInit
     /\ RegionIsValid
     /\ StatesAreListed
     /\ ~(TypeKind \in {"elementary", "ca1"} /\ GivesY)) =>
        /\ cfg_out.res.tag = "Ok"
        /\ cfg_out.res.val.init_type =
             [kind |-> "Random",
              states |-> InitStates(split(StatesText, ",")).val,
              x1 |-> RegionValue(1), x2 |-> RegionValue(2),
              y1 |-> RegionValue(3), y2 |-> RegionValue(4)]

(* C16: for every 1-D type (elementary and the general '1' type) a random    *)
(* initialization that gives Y1 or Y2 is rejected with an error; Y1 and Y2   *)
(* are accepted only for the 2-D types.                                      *)
C16_YRejectedForEvery1DType ==
    (/\ cfg_out.done
     /\ TypeKind \in {"elementary", "ca1"}
     /\ IsRandomInit
     /\ GivesY) =>
        cfg_out.res.tag = "Err"

(* C17: parse_ca1 returns the error 'Specify CODE value!' whenever RADIUS    *)
(* and STATES parse but no CODE follows them, and for every argument list    *)
(* it returns Ok or Err, never indexing past the end of the list.            *)
C17_MissingCodeIsAnError ==
    (/\ cfg_out.done
     /\ Len(cfg_in.free) >= 1
     /\ cfg_in.free[1] = S_1) =>
        /\ cfg_out.res.tag \in {"Ok", "Err"}
        /\ (/\ Len(cfg_in.free) = 3
            /\ parse_uint(cfg_in.free[2], U8MaxDigits).some
            /\ parse_uint(cfg_in.free[3], U8MaxDigits).some) =>
                cfg_out.res = RErr(ERR_NO_CODE)

\* m or n followed by an unsigned 32-bit integer.
IsNeighborhoodText(a) ==
    /\ a # <<>>
    /\ a[1] \in {"m", "n"}
    /\ Len(a) >= 2
    /\ \A k \in 2..Len(a) : IsDecimal(a[k])
    /\ DigitsLeq(StripZeros([k \in 1..(Len(a) - 1) |-> DecimalValue(a[k + 1])]),
                 U32MaxDigits)

(* C18: for every argument string that is not m or n followed by an          *)
(* unsigned 32-bit integer, the empty string included, parse_neighborhood    *)
(* returns Err and never fails.                                              *)
C18_MalformedNeighborhoodIsAnError ==
    (/\ cfg_out.done
     /\ Len(cfg_in.free) >= 2
     /\ cfg_in.free[1] = S_cyclic
     /\ ~IsNeighborhoodText(cfg_in.free[2])) =>
        cfg_out.res.tag = "Err"

\* --init is left out or is random:uniform, with or without a region.
IsUniformInit ==
    \/ ~cfg_in.init.some
    \/ IsRandomInit /\ StatesText = S_uniform

-----------------------------------------------------------------------------
(* C20: the palette has at least `states` entries: for every CA type, state  *)
(* count and initial state list the configuration accepts, every cell of     *)
(* every reachable grid is a valid index into the palette of make_palette,   *)
(* and state_to_color never indexes out of range while drawing.              *)
C20_EveryCellHasAColour ==
    (view.state = "built" /\ ~Is1D(automaton)) =>
        /\ \A pt \in Positions(automaton.cells) :
              automaton.cells[pt[1]][pt[2]] \in 0..(PaletteLen - 1)
        /\ ~(failed /\ view.drawn = gen)

-----------------------------------------------------------------------------
\* The number of the (2r+1)^2 - 1 Moore neighbours of (row, col), aliases
\* counted once each, that hold the successor of the cell.
TrueCount(cells, range, states, row, col) ==
    CountAround(cells, row, col, MooreOffsets(range),
                (cells[row][col] + 1) % states)

(* C21: the cyclic rule's test count >= threshold uses the true number of    *)
(* successor-valued neighbours for every range: with more than 255           *)
(* neighbours (Moore range >= 8) the 8-bit counter neither overflows nor     *)
(* wraps, and the cell advances exactly when the true count is >= threshold. *)
C21_CountIsTheTrueCount ==
    [][(ca_type.kind = "cyclic" /\ ca_type.nbh.shape = "Moore"
           /\ ca_type.states >= 1) =>
          /\ ~failed'
          /\ \A p \in Positions(automaton.cells) :
                LET cell == automaton.cells[p[1]][p[2]]
                    advance == TrueCount(automaton.cells, ca_type.nbh.range,
                                         ca_type.states, p[1], p[2])
                                  >= ca_type.threshold
                IN  automaton'.cells[p[1]][p[2]] =
                       IF advance THEN (cell + 1) % ca_type.states ELSE cell
      ]_vars

-----------------------------------------------------------------------------
(* C22: the Moore iterator of lib.rs and the Moore iterator of nb.rs yield   *)
(* the same sequence of cell values for every grid, every centre and every   *)
(* range >= 0, range 0, where both yield nothing, included.                  *)
C22_BothMooreIteratorsAgree ==
    (nb_out.moore_done /\ nb_out.lib_done) =>
        /\ nb_out.lib_moore = nb_out.moore
        /\ (nb_in.range = 0 => nb_out.lib_moore = <<>>)

-----------------------------------------------------------------------------
(* C23: for every (CA type, init) pair the configuration parser accepts,     *)
(* get_ca_view receives an initialization of the matching dimension: Random  *)
(* or Points1D for the 1-D types (elementary and general '1'), Random or     *)
(* Points2D for cyclic and life; its unreachable!() is never reached.        *)
C23_InitHasTheDimensionOfTheType ==
    (cfg_out.done /\ cfg_out.res.tag = "Ok") =>
        /\ cfg_out.res.val.ca_type.kind \in {"elementary", "ca1"}
              => cfg_out.res.val.init_type.kind \in {"Random", "Points1D"}
        /\ cfg_out.res.val.ca_type.kind \in {"cyclic", "life"}
              => cfg_out.res.val.init_type.kind \in {"Random", "Points2D"}
        /\ ~failed

-----------------------------------------------------------------------------
\* The grid of generation g of the automaton of the view: the rule of the
\* caller moves every cell one place to the right on the ring, and no tick
\* of the elementary automaton completes.
Generation(g) ==
    [i \in DOMAIN cells0 |-> cells0[(i - g) % Cardinality(DOMAIN cells0)]]

Min(a, b) == IF a < b THEN a ELSE b

IsView1D == "current_row" \in DOMAIN view /\ ~failed

\* After gen ticks: the current row, the generations above it, the zeros
\* below it.
HistoryRows ==
    IsView1D =>
        /\ view.current_row = Min(gen, view.height - 1)
        /\ view.cells[view.current_row] = automaton.cells
        /\ \A k \in 0..view.current_row :
              view.cells[k] = Generation(gen - view.current_row + k)
        /\ \A k \in (view.current_row + 1)..(view.height - 1) :
              view.cells[k] = [i \in DOMAIN cells0 |-> 0]

\* A tick of a full view moves every row but the oldest up by one.
FullViewScrolls ==
    (IsView1D /\ view.current_row = view.last_row /\ gen' = gen + 1) =>
        \A k \in 0..(view.height - 2) : view'.cells[k] = view.cells[k + 1]

(* C24: the 1-D view keeps a scrolling history: after n ticks of a CA1View   *)
(* of height H >= 1, current_row = min(n, H-1), row current_row equals the   *)
(* automaton's current grid, rows 0..current_row hold the consecutive        *)
(* generations n-current_row .. n oldest first, and the rows after           *)
(* current_row are still all zero. Once the view is full each tick drops the *)
(* oldest row and shifts every other row up by one.                          *)
C24_ScrollingHistory == []HistoryRows /\ [][FullViewScrolls]_vars

\* A view of three rows has scrolled three times over an automaton whose
\* generations differ, and holds generations 3, 4 and 5.
C24_Witness ==
    /\ IsView1D
    /\ view.height = 3
    /\ gen = 5
    /\ cells0 = [i \in 0..2 |-> i]
    /\ view.current_row = 2
    /\ view.cells[0] = Generation(3)
    /\ view.cells[1] = Generation(4)
    /\ view.cells[2] = Generation(5)
    /\ Generation(3) # Generation(4) /\ Generation(4) # Generation(5)

-----------------------------------------------------------------------------
IsC25Config ==
    /\ ca_type.kind = "cyclic"
    /\ ca_type.threshold = 0
    /\ ca_type.states >= 1
    /\ \A p \in Positions(cells0) : cells0[p[1]][p[2]] < ca_type.states

\* Every tick completes and advances every cell.
EveryCellAdvances ==
    IsC25Config =>
        /\ ~failed'
        /\ \A p \in Positions(automaton.cells) :
              automaton'.cells[p[1]][p[2]] =
                 (automaton.cells[p[1]][p[2]] + 1) % ca_type.states

\* After exactly s ticks the grid is the initial one.
BackAfterPeriod ==
    (IsC25Config /\ gen = ca_type.states) => automaton.cells = cells0

(* C25: with threshold 0 and states = s >= 1, every cell of a cyclic         *)
(* automaton advances to (cell+1) mod s on every tick whatever its           *)
(* neighbours are, so for an initial grid whose cells are all < s the grid   *)
(* after exactly s ticks equals the initial grid.                            *)
C25_ThresholdZeroHasPeriodS ==
    [][EveryCellAdvances]_vars /\ []BackAfterPeriod

=============================================================================
